---- MODULE Spec2Model ----
(***************************************************************************)
(* The match engine of AIChessTournament: the ply loop of POST /api/match  *)
(* (src/app/api/match/route.ts) and its copy playMatch of the tournament   *)
(* runner (src/app/api/tournament/route.ts), with fetchMove's retry loop,  *)
(* the move parser and the chaos policy of lib/chess-utils                 *)
(* (src/unnamed/part_003).                                                 *)
(*                                                                         *)
(* Texts are sequences of one-character strings.  Times are milliseconds,  *)
(* with the values of the source.  The rules library chess.js and the      *)
(* language model are collaborators outside the repository: what they      *)
(* answer is an input of the step that consumes it (\E below).  A position *)
(* is its piece placement, the side to move and the full-move counter; the *)
(* castling, en-passant and half-move fields, which the engine never       *)
(* reads, are left out.  A placement is kept as its difference from the    *)
(* starting placement: a function on the squares whose occupant is not the *)
(* one of the start.  Event payloads keep the fields the engine decides    *)
(* (type, message kind, move token, ply, color, strike counts, display     *)
(* number, whether clocks are attached); log lines, pgn and the elapsed    *)
(* time stamp are left out.                                                *)
(***************************************************************************)
EXTENDS Integers, Sequences, FiniteSets, TLC

VARIABLES
    \* the request and what it fixes for the whole match
    runner, mode, initialClockMs, maxPly, script, request,
    \* the locals of the ply loop, the stream and the result
    pc, ply, chess, fullmove, illegalCounts, lastIllegal, moves,
    clocks, events, result,
    \* what the rules library answered in the iteration, and for each entry
    \* of moves whether the library accepted it
    lib, byRules,
    \* the think step: fetchMove's attempt, the time it has taken, its
    \* timeout, the text it returned, the prompt, how each model call ended
    attempt, elapsed, timeoutMs, rawMove, prompt, outcomes,
    \* the HTTP status of the response, and the consumer of the stream
    response, consumer,
    \* history: fetchMove invocations, the time the agent needed, how the
    \* think step ended
    requests, think, fetched,
    \* the call of a library function of lib/chess-utils under test
    unit,
    \* the tournament page: its pairings, its runNext chains and its cards
    tourney,
    \* the evaluation bar of the match page and its requests
    evalBar,
    \* the match page: its running flag, abort handle, result, stored
    \* history and ratings, and the read loop of every match it started
    home

vars == <<runner, mode, initialClockMs, maxPly, script, request,
          pc, ply, chess, fullmove, illegalCounts, lastIllegal, moves,
          clocks, events, result, lib, byRules,
          attempt, elapsed, timeoutMs, rawMove, prompt, outcomes,
          response, consumer, requests, think, fetched,
          unit, tourney, evalBar, home>>

\* What lies outside the match engine.
elsewhere == <<unit, tourney, evalBar, home>>

----------------------------------------------------------------------------
(* Bounds of the model and inputs of the environment.                      *)

\* The ply ceiling of the runs whose agents are free; the scripted runs go
\* to MAX_PLY.
MaxPly == 3

\* Plies a match is followed for from the arrival of its request.
ServicePly == 2

Runners == {"match", "tournament"}
\* The three variants, and a mode value that names none of them: the match
\* request's mode is used as it arrives.
Modes == {"strict", "chaos", "bullet", "blitz"}

\* clockMinutes of the request, in milliseconds (minutes * 60000).
ClockRequests == {30000, 78000}

\* How long one model call needs to answer.
Latencies == {11900, 200000}

\* What the model may write.
RawTexts == { <<"e","2","e","4">>,
              <<"z","z","z","z">>,
              <<"R","e","s","i","g","n","\n">>,
              <<" ">> }

----------------------------------------------------------------------------
(* Text helpers (JavaScript String methods as used by the source).         *)

Min(a, b) == IF a < b THEN a ELSE b
Max(a, b) == IF a > b THEN a ELSE b

UpperChars == <<"A","B","C","D","E","F","G","H","I","J","K","L","M",
                "N","O","P","Q","R","S","T","U","V","W","X","Y","Z">>
LowerChars == <<"a","b","c","d","e","f","g","h","i","j","k","l","m",
                "n","o","p","q","r","s","t","u","v","w","x","y","z">>
DigitChars == {"0","1","2","3","4","5","6","7","8","9"}
Whitespace == {" ", "\n", "\t"}

toLowerChar(c) ==
    IF \E i \in 1..Len(UpperChars) : UpperChars[i] = c
    THEN LowerChars[CHOOSE i \in 1..Len(UpperChars) : UpperChars[i] = c]
    ELSE c

toLowerCase(s) == [i \in 1..Len(s) |-> toLowerChar(s[i])]

RECURSIVE trimStart(_)
trimStart(s) ==
    IF s # <<>> /\ Head(s) \in Whitespace THEN trimStart(Tail(s)) ELSE s

RECURSIVE trimEnd(_)
trimEnd(s) ==
    IF s # <<>> /\ s[Len(s)] \in Whitespace
    THEN trimEnd(SubSeq(s, 1, Len(s) - 1))
    ELSE s

trim(s) == trimEnd(trimStart(s))

IsLowerAlnum(c) ==
    (\E i \in 1..Len(LowerChars) : LowerChars[i] = c) \/ c \in DigitChars

\* .replace(/[^a-z0-9]/g, "")
stripNonAlnum(s) == SelectSeq(s, IsLowerAlnum)

\* .replace(/^move:?/i, "")
stripMoveLabel(s) ==
    IF Len(s) >= 4 /\ SubSeq(s, 1, 4) = <<"m","o","v","e">>
    THEN IF Len(s) >= 5 /\ s[5] = ":"
         THEN SubSeq(s, 6, Len(s))
         ELSE SubSeq(s, 5, Len(s))
    ELSE s

RESIGN == <<"r","e","s","i","g","n">>

----------------------------------------------------------------------------
(* The move parser, lib/chess-utils.                                       *)

NoMove == [from |-> <<>>, to |-> <<>>, promotion |-> "null"]

isSquare(v) ==
    /\ Len(v) = 2
    /\ v[1] \in {"a","b","c","d","e","f","g","h"}
    /\ v[2] \in {"1","2","3","4","5","6","7","8"}

\* Mutant: a fifth character that names no promotion piece rejects the text.
parseUciMove_strictPromotion(raw) ==
    LET cleaned == trim(stripMoveLabel(stripNonAlnum(toLowerCase(trim(raw)))))
        from == SubSeq(cleaned, 1, 2)
        to == SubSeq(cleaned, 3, 4)
    IN  IF cleaned = RESIGN \/ cleaned = <<>> THEN NoMove
        ELSE IF Len(cleaned) < 4 \/ Len(cleaned) > 5 THEN NoMove
        ELSE IF ~isSquare(from) \/ ~isSquare(to) THEN NoMove
        ELSE IF Len(cleaned) = 5 /\ cleaned[5] \notin {"q","r","b","n"} THEN NoMove
        ELSE [from |-> from, to |-> to,
              promotion |-> IF Len(cleaned) = 5 THEN cleaned[5] ELSE ""]

\* Mutant: a promotion letter makes the text too long.
parseUciMove_four(raw) ==
    LET cleaned == trim(stripMoveLabel(stripNonAlnum(toLowerCase(trim(raw)))))
    IN  IF Len(cleaned) = 4 /\ isSquare(SubSeq(cleaned, 1, 2))
                            /\ isSquare(SubSeq(cleaned, 3, 4))
        THEN [from |-> SubSeq(cleaned, 1, 2), to |-> SubSeq(cleaned, 3, 4),
              promotion |-> ""]
        ELSE NoMove

parseUciMove(raw) ==
    LET cleaned == trim(stripMoveLabel(stripNonAlnum(toLowerCase(trim(raw)))))
        from == SubSeq(cleaned, 1, 2)
        to == SubSeq(cleaned, 3, 4)
    IN  IF cleaned = RESIGN \/ cleaned = <<>> THEN NoMove
        ELSE IF Len(cleaned) < 4 \/ Len(cleaned) > 5 THEN NoMove
        ELSE IF ~isSquare(from) \/ ~isSquare(to) THEN NoMove
        ELSE IF Len(cleaned) = 5 /\ cleaned[5] \notin {"q","r","b","n"}
             THEN [from |-> from, to |-> to, promotion |-> ""]
        ELSE [from |-> from, to |-> to,
              promotion |-> IF Len(cleaned) = 5 THEN cleaned[5] ELSE ""]

\* Mutant: the token written as destination then source.
uciToken_reversed(m) ==
    m.to \o m.from \o (IF m.promotion = "" THEN <<>> ELSE <<m.promotion>>)

\* `${from}${to}${promotion ?? ""}`
uciToken(m) ==
    m.from \o m.to \o (IF m.promotion = "" THEN <<>> ELSE <<m.promotion>>)

----------------------------------------------------------------------------
(* Program constants.                                                      *)

MOVE_TIMEOUT_MS == 12000
TimeoutFloorMs == 500
StrikeLimit == 3
MaxAttempts == 3
MinClockMs == 60000
MaxClockMs == 180000

MatchMaxPly == 400
TournamentMaxPly == 300
HISTORY_CAP == 24

\* Mutant: the tournament's ceiling in both runners.
MAX_PLY_tournament(r) == TournamentMaxPly

MAX_PLY(r) == IF r = "match" THEN MatchMaxPly ELSE TournamentMaxPly

NoResult == [winner |-> "none", reason |-> "none"]
NoClocks == [white |-> -1, black |-> -1]
NoIllegal == [moveText |-> <<>>, reason |-> "none"]
EmptyMarker == <<"(","e","m","p","t","y",")">>

Colors == {"white", "black"}
Opponent(c) == IF c = "white" THEN "black" ELSE "white"

\* chess.turn() === "w" ? "white" : "black"
ActiveColor(ch) == IF ch.turn = "w" THEN "white" ELSE "black"

isBullet == mode = "bullet"

\* Math.min(3, Math.max(1, safeClockMinutes)) * 60_000, or 0 when untimed
InitialClock(m, requestedMs) ==
    IF m = "bullet" THEN Min(MaxClockMs, Max(MinClockMs, requestedMs)) ELSE 0

----------------------------------------------------------------------------
(* Positions.                                                              *)

Files == <<"a","b","c","d","e","f","g","h">>
Ranks == <<"1","2","3","4","5","6","7","8">>
Squares == { <<Files[f], Ranks[r]>> : f \in 1..8, r \in 1..8 }

\* An empty square of chess.board() (null in the source).
NoPiece == [type |-> "", color |-> ""]

BackRank == <<"r","n","b","q","k","b","n","r">>

\* The occupant of a square in the placement of new Chess().
StartPiece(sq) ==
    LET f == CHOOSE i \in 1..8 : Files[i] = sq[1]
    IN  CASE sq[2] = "1" -> [type |-> BackRank[f], color |-> "w"]
          [] sq[2] = "2" -> [type |-> "p", color |-> "w"]
          [] sq[2] = "7" -> [type |-> "p", color |-> "b"]
          [] sq[2] = "8" -> [type |-> BackRank[f], color |-> "b"]
          [] OTHER -> NoPiece

\* The placement of new Chess(): no square differs from the start.
StartBoard == [sq \in {} |-> NoPiece]

\* board[rank][file]
at(board, sq) == IF sq \in DOMAIN board THEN board[sq] ELSE StartPiece(sq)

\* board[rank][file] = piece
put(board, sq, piece) ==
    LET changed == IF piece = StartPiece(sq) THEN (DOMAIN board) \ {sq}
                   ELSE (DOMAIN board) \cup {sq}
    IN  [x \in changed |-> IF x = sq THEN piece ELSE board[x]]

\* What the library compares of two positions when it looks for repetitions.
positionKey(fen) == [board |-> fen.board, turn |-> fen.turn]

\* chess.fen()
fenOf(ch) == [board |-> ch.board, turn |-> ch.turn, fullmove |-> ch.fullmove]

\* new Chess(fen): the position of the FEN, with a history of its own
newChess(fen) ==
    [board |-> fen.board, turn |-> fen.turn, fullmove |-> fen.fullmove,
     positions |-> <<positionKey(fen)>>]

\* new Chess(): white to move, full-move counter 1
StartPosition ==
    newChess([board |-> StartBoard, turn |-> "w", fullmove |-> 1])

----------------------------------------------------------------------------
(* The decisions of the ply loop.                                          *)

\* Mutant: the clamp to the clock left out.
perMoveTimeout_unclamped(m, clock) == MOVE_TIMEOUT_MS

\* Math.max(500, Math.min(MOVE_TIMEOUT_MS, clock || MOVE_TIMEOUT_MS))
perMoveTimeout(m, clock) ==
    IF m = "bullet"
    THEN Max(TimeoutFloorMs,
             Min(MOVE_TIMEOUT_MS, IF clock = 0 THEN MOVE_TIMEOUT_MS ELSE clock))
    ELSE MOVE_TIMEOUT_MS

\* Mutant: the floor at zero left out.
charge_noFloor(clock, moveTime) == clock - moveTime

\* Math.max(0, clocks[activeColor] - moveTime)
charge(clock, moveTime) == Max(0, clock - moveTime)

\* Mutant: < for <=.
flagged_strict(clock) == clock < 0

\* clocks[activeColor] <= 0
flagged(clock) == clock <= 0

\* Mutant: > for >=.
strikeForfeit_late(m, count) == m \in {"strict", "bullet"} /\ count > StrikeLimit

\* Mutant: the variant test left out.
strikeForfeit_anyMode(m, count) == count >= StrikeLimit

\* (mode === "strict" || mode === "bullet") && illegalCounts[activeColor] >= 3
strikeForfeit(m, count) == m \in {"strict", "bullet"} /\ count >= StrikeLimit

\* Mutant: no text is taken for a resignation.
isResign_never(cleaned) == FALSE

\* cleaned === "resign"
isResign(cleaned) == cleaned = RESIGN

\* Mutant: no failure of the model call is taken for an empty response.
isEmptyMove_never(err) == FALSE

\* Mutant: every failure taken for the empty-move condition.
isEmptyMove_any(err) == TRUE

\* message.toLowerCase().includes("empty move")
isEmptyMove(err) == err = "empty"

\* Mutant: the reset left out.
resetStrikes_keep(count) == count

\* illegalCounts[activeColor] = 0 after an accepted legal move
resetStrikes(count) == 0

\* 800 * attempt + 400
emptyBackoff(a) == 800 * a + 400

\* 1000 * attempt + 500
overloadBackoff(a) == 1000 * a + 500

\* Mutant: one more retry.
mayRetry_fourth(a) == a <= MaxAttempts

\* attempt < 3
mayRetry(a) == a < MaxAttempts

\* parseInt(fen.split(" ")[5], 10) || fullmove
fullmoveOf(pos, fallback) == IF pos.fullmove = 0 THEN fallback ELSE pos.fullmove

\* Math.floor(moves.length / 2) + 1
displayMoveNum(n) == (n \div 2) + 1

----------------------------------------------------------------------------
(* The rules library, as the engine consumes it.                           *)

\* What every legal move has: a piece of the side to move on the source
\* square and no piece of that side on the destination.
playable(ch, m) ==
    /\ m # NoMove
    /\ m.from # m.to
    /\ at(ch.board, m.from).color = ch.turn
    /\ at(ch.board, m.to).color # ch.turn

\* chess.move(rawTrimmed): the move when the text denotes one and the library
\* finds it legal in the current position, null otherwise (also when it throws).
chessMove(ch, rawTrimmed, legal) ==
    IF legal /\ playable(ch, parseUciMove(rawTrimmed))
    THEN parseUciMove(rawTrimmed)
    ELSE NoMove

\* The position after an accepted legal move (a plain move or capture, which
\* is what the modelled texts denote): the piece is on its destination, the
\* other side is to move, the full-move counter advances after black's move,
\* and the new position joins the history.
afterLegalMove(ch, m) ==
    LET piece == at(ch.board, m.from)
        next == [board |-> put(put(ch.board, m.from, NoPiece), m.to,
                               [type |-> IF m.promotion = "" THEN piece.type
                                         ELSE m.promotion,
                                color |-> piece.color]),
                 turn |-> IF ch.turn = "w" THEN "b" ELSE "w",
                 fullmove |-> IF ch.turn = "b" THEN ch.fullmove + 1 ELSE ch.fullmove]
    IN  [board |-> next.board, turn |-> next.turn, fullmove |-> next.fullmove,
         positions |-> Append(ch.positions, positionKey(next))]

NoVerdict ==
    [mate |-> FALSE, stale |-> FALSE, three |-> FALSE, insuff |-> FALSE, draw |-> FALSE]

\* What the library reports of a position after a legal move.
TerminalVerdicts ==
    { [mate |-> FALSE, stale |-> FALSE, three |-> FALSE, insuff |-> FALSE, draw |-> FALSE],
      [mate |-> TRUE,  stale |-> FALSE, three |-> FALSE, insuff |-> FALSE, draw |-> FALSE],
      [mate |-> FALSE, stale |-> TRUE,  three |-> FALSE, insuff |-> FALSE, draw |-> TRUE],
      [mate |-> FALSE, stale |-> FALSE, three |-> TRUE,  insuff |-> FALSE, draw |-> TRUE],
      [mate |-> FALSE, stale |-> FALSE, three |-> FALSE, insuff |-> TRUE,  draw |-> TRUE],
      [mate |-> FALSE, stale |-> FALSE, three |-> TRUE,  insuff |-> TRUE,  draw |-> TRUE],
      [mate |-> FALSE, stale |-> TRUE,  three |-> FALSE, insuff |-> TRUE,  draw |-> TRUE],
      [mate |-> FALSE, stale |-> FALSE, three |-> FALSE, insuff |-> FALSE, draw |-> TRUE] }

\* The rejection reasons the engine derives from chess.get / chess.moves.
Diagnoses == {"nopiece", "notyours", "rules", "default", "parse"}

\* The reason given for a rejected text: no piece on the source square, a
\* piece of the other side, a move the legal-move list does not hold, or
\* (inList) one it holds although chess.move refused the text.
diagnose(ch, parsedUci, inList) ==
    IF parsedUci = NoMove THEN "parse"
    ELSE IF at(ch.board, parsedUci.from) = NoPiece THEN "nopiece"
    ELSE IF at(ch.board, parsedUci.from).color # ch.turn THEN "notyours"
    ELSE IF ~inList THEN "rules"
    ELSE "default"

\* Every answer the library may give in one iteration: whether chess.move
\* accepts the text, and then what it reports of the position after the
\* move, or else whether new Chess(fen) accepts the position of a chaos
\* move.  The questions an iteration does not ask have one answer here, and
\* the legal-move list never holds a move that chess.move has refused.
LibAnswers ==
    [legal : {TRUE}, verdict : TerminalVerdicts, inList : {FALSE}, fenOk : {TRUE}]
    \cup
    [legal : {FALSE}, verdict : {NoVerdict}, inList : {FALSE}, fenOk : BOOLEAN]

\* The library was not consulted in the iteration.
NotAsked ==
    [asked |-> FALSE, accepted |-> FALSE, verdict |-> NoVerdict, rebuilt |-> "none"]

\* chess.isThreefoldRepetition(): some position of the history, the
\* current one included, stands in it three times.
isThreefoldRepetition(ch) ==
    \E i \in 1..Len(ch.positions) :
        Cardinality({ j \in 1..Len(ch.positions) :
                        ch.positions[j] = ch.positions[i] }) >= 3

----------------------------------------------------------------------------
(* Scripted agents and what the library answers to them.                   *)

Scripts == {"shuffle", "unparseable"}

g1 == <<"g","1">>
f3 == <<"f","3">>
g8 == <<"g","8">>
f6 == <<"f","6">>

\* The knight shuffle g1f3 g8f6 f3g1 f6g8, or a text that is no move.
scriptText(sc, ch) ==
    IF sc # "shuffle" THEN <<"z","z","z","z">>
    ELSE IF ch.turn = "w"
    THEN IF at(ch.board, g1).type = "n" THEN g1 \o f3 ELSE f3 \o g1
    ELSE IF at(ch.board, g8).type = "n" THEN g8 \o f6 ELSE f6 \o g8

\* The library on the scripted game: a shuffle move is legal, and the only
\* terminal condition the game can meet is the repetition (which isDraw
\* reports too).
libraryOnScript(ch, t) ==
    LET m == parseUciMove(t)
        three == IF playable(ch, m)
                 THEN isThreefoldRepetition(afterLegalMove(ch, m))
                 ELSE FALSE
    IN  [legal |-> playable(ch, m),
         verdict |-> [mate |-> FALSE, stale |-> FALSE, three |-> three,
                      insuff |-> FALSE, draw |-> three],
         inList |-> FALSE,
         fenOk |-> TRUE]

----------------------------------------------------------------------------
(* The prompt, lib/prompt buildModelPrompt: the parts that vary.           *)

historyTail(history) ==
    SubSeq(history, Max(1, Len(history) - HISTORY_CAP + 1), Len(history))

\* Mutant: the prompt forgets the rejected move.
buildModelPrompt_noMemory(fen, history, activeColor, m, clockMsRemaining, initialMs, lastMove) ==
    [color |-> activeColor,
     fen |-> fen,
     historyTail |-> historyTail(history),
     trimmedCount |-> Len(history) - Len(historyTail(history)),
     lastMoveLine |-> NoIllegal,
     clockSeconds |-> IF m = "bullet" THEN Max(0, clockMsRemaining \div 1000) ELSE -1,
     chaos |-> m = "chaos",
     bullet |-> m = "bullet"]

buildModelPrompt(fen, history, activeColor, m, clockMsRemaining, initialMs, lastMove) ==
    [color |-> activeColor,
     fen |-> fen,
     historyTail |-> historyTail(history),
     trimmedCount |-> Len(history) - Len(historyTail(history)),
     lastMoveLine |-> lastMove,
     clockSeconds |-> IF m = "bullet" THEN Max(0, clockMsRemaining \div 1000) ELSE -1,
     chaos |-> m = "chaos",
     bullet |-> m = "bullet"]

NoPrompt ==
    [color |-> "none", fen |-> fenOf(StartPosition), historyTail |-> <<>>,
     trimmedCount |-> 0, lastMoveLine |-> NoIllegal, clockSeconds |-> -1,
     chaos |-> FALSE, bullet |-> FALSE]

----------------------------------------------------------------------------
(* The request of POST /api/match and its validation.                      *)

\* An agent identifier of the body: absent, the empty string, or a name.
Identifiers ==
    { [given |-> FALSE, text |-> <<>>],
      [given |-> TRUE, text |-> <<>>],
      [given |-> TRUE, text |-> <<"m">>] }

\* json: the body parses; key: the body or the environment gives an AI key.
MatchRequests ==
    [json : BOOLEAN, key : BOOLEAN, whiteModel : Identifiers, blackModel : Identifiers]

ValidRequest ==
    [json |-> TRUE, key |-> TRUE,
     whiteModel |-> [given |-> TRUE, text |-> <<"m">>],
     blackModel |-> [given |-> TRUE, text |-> <<"m">>]]

\* !value
falsy(id) == ~id.given \/ id.text = <<>>

\* Mutant: only a request that lacks both identifiers is refused.
missingModels_both(req) == falsy(req.whiteModel) /\ falsy(req.blackModel)

\* !whiteModel || !blackModel
missingModels(req) == falsy(req.whiteModel) \/ falsy(req.blackModel)

\* The status of the response: 400 or 401 for a refused request, 200 for
\* the event stream.
validate(req) ==
    IF ~req.json THEN 400
    ELSE IF ~req.key THEN 401
    ELSE IF missingModels(req) THEN 400
    ELSE 200

----------------------------------------------------------------------------
(* The chaos policy, lib/chess-utils applyChaosMove.                       *)

\* board[fromRank][fromFile] = null; board[toRank][toFile] = { type, color }
chaosBoard(board, uci, color) ==
    LET existing == at(board, uci.from)
        piece == IF existing # NoPiece THEN existing
                 ELSE [type |-> IF uci.promotion = "" THEN "p" ELSE uci.promotion,
                       color |-> color]
        lifted == put(board, uci.from, NoPiece)
    IN  put(lifted, uci.to,
            [type |-> IF uci.promotion = "" THEN piece.type ELSE uci.promotion,
             color |-> color])

\* Mutant: the token built as destination then source.
applyChaosMove_swapped(fen, uci, color, fullmoveNumber) ==
    [fen |-> [board |-> chaosBoard(fen.board, uci, color),
              turn |-> IF color = "w" THEN "b" ELSE "w",
              fullmove |-> IF color = "b" THEN fullmoveNumber + 1
                           ELSE fullmoveNumber],
     san |-> uci.to \o uci.from]

\* Mutant: the side to move left as it was.
applyChaosMove_sameTurn(fen, uci, color, fullmoveNumber) ==
    [fen |-> [board |-> chaosBoard(fen.board, uci, color),
              turn |-> color,
              fullmove |-> IF color = "b" THEN fullmoveNumber + 1
                           ELSE fullmoveNumber],
     san |-> uciToken(uci)]

\* Mutant: the full-move counter passed on as it came.
applyChaosMove_noIncrement(fen, uci, color, fullmoveNumber) ==
    [fen |-> [board |-> chaosBoard(fen.board, uci, color),
              turn |-> IF color = "w" THEN "b" ELSE "w",
              fullmove |-> fullmoveNumber],
     san |-> uciToken(uci)]

applyChaosMove(fen, uci, color, fullmoveNumber) ==
    [fen |-> [board |-> chaosBoard(fen.board, uci, color),
              turn |-> IF color = "w" THEN "b" ELSE "w",
              fullmove |-> IF color = "b" THEN fullmoveNumber + 1
                           ELSE fullmoveNumber],
     san |-> uciToken(uci)]

----------------------------------------------------------------------------
(* Stream events and the Match Result.                                     *)

NoCounts == [white |-> -1, black |-> -1]

Event(type, kind, move, p, color, counts, num, clocked, res) ==
    [type |-> type, kind |-> kind, move |-> move, ply |-> p, color |-> color,
     illegalCounts |-> counts, displayMoveNum |-> num, clocked |-> clocked,
     result |-> res]

statusEvent(kind, counts, clocked) ==
    Event("status", kind, <<>>, -1, "none", counts, 0, clocked, NoResult)

\* Mutant: the move event numbered with the ply to come.
moveEvent_nextPly(move, p, color, counts, num, kind) ==
    Event("move", kind, move, p + 1, color, counts, num, isBullet, NoResult)

moveEvent(move, p, color, counts, num, kind) ==
    Event("move", kind, move, p, color, counts, num, isBullet, NoResult)

endEvent(res) ==
    Event("end", "end", <<>>, -1, "none", NoCounts, 0, FALSE, res)

\* send(controller, event); playMatch of the tournament runner emits nothing
send(stream, evs) == IF runner = "match" THEN stream \o evs ELSE stream

\* Mutant: the result built without the move history.
buildResult_noMoves(winner, reason, s) ==
    [winner |-> winner, reason |-> reason, moves |-> <<>>,
     illegalCounts |-> s.illegalCounts,
     clocks |-> IF isBullet THEN s.clocks ELSE NoClocks,
     finalFen |-> fenOf(s.chess)]

buildResult(winner, reason, s) ==
    [winner |-> winner, reason |-> reason, moves |-> s.moves,
     illegalCounts |-> s.illegalCounts,
     clocks |-> IF isBullet THEN s.clocks ELSE NoClocks,
     finalFen |-> fenOf(s.chess)]

\* Mutant: a draw credited to the side to move.
resultFromDraw_mover(reason, s) == buildResult(ActiveColor(s.chess), reason, s)

resultFromDraw(reason, s) == buildResult("draw", reason, s)

----------------------------------------------------------------------------
(* The loop's local state as one record, and its exits.                    *)

Loop ==
    [pc |-> pc, ply |-> ply, chess |-> chess, fullmove |-> fullmove,
     illegalCounts |-> illegalCounts, lastIllegal |-> lastIllegal,
     moves |-> moves, clocks |-> clocks, events |-> events, result |-> result,
     lib |-> lib, byRules |-> byRules]

Install(n) ==
    /\ pc' = n.pc
    /\ ply' = n.ply
    /\ chess' = n.chess
    /\ fullmove' = n.fullmove
    /\ illegalCounts' = n.illegalCounts
    /\ lastIllegal' = n.lastIllegal
    /\ moves' = n.moves
    /\ clocks' = n.clocks
    /\ events' = n.events
    /\ result' = n.result
    /\ lib' = n.lib
    /\ byRules' = n.byRules

\* Mutant: the return after the end event left out.
end_noReturn(s, res, evs) ==
    [s EXCEPT !.events = send(@, evs \o <<endEvent(res)>>),
              !.result = res,
              !.pc = "loop"]

\* send(controller, { type: "end", result }); controller.close(); return
\* (return buildResult(...) in playMatch)
end(s, res, evs) ==
    [s EXCEPT !.events = send(@, evs \o <<endEvent(res)>>),
              !.result = res,
              !.pc = "done"]

\* Mutant: the next iteration entered without a ply used up.
continue_samePly(s) == [s EXCEPT !.pc = "loop"]

\* continue, or the end of the loop body: the next iteration
continue(s) == [s EXCEPT !.ply = @ + 1, !.pc = "loop"]

\* an exception that nothing catches leaves playMatch without a result
crash(s) == [s EXCEPT !.pc = "crashed"]

\* controller.enqueue on a stream its consumer has cancelled throws: start()
\* is left at the first send after the think step, whichever branch runs
closed(s) == [s EXCEPT !.pc = "closed"]

\* The state the iteration leaves: what the branch computed while the
\* consumer reads, the abandoned loop once the consumer has gone.
delivered(s, n) ==
    IF runner = "match" /\ consumer = "aborted" THEN closed(s) ELSE n

----------------------------------------------------------------------------
(* The loop body after the think step.                                     *)

\* Mutant: the think time charged to both sides.
charged_both(s, moveTime) ==
    IF isBullet
    THEN [s EXCEPT !.clocks = [c \in Colors |-> charge(s.clocks[c], moveTime)]]
    ELSE s

\* The clock of the side that just acted, charged in the timed variant.
charged(s, moveTime) ==
    IF isBullet
    THEN [s EXCEPT !.clocks[ActiveColor(s.chess)] = charge(@, moveTime)]
    ELSE s

\* Mutant: the empty response struck but not remembered.
onFetchErr_forgets(s, err, moveTime) ==
    LET active == ActiveColor(s.chess)
        opponent == Opponent(active)
        c == charged(s, moveTime)
        struck == [c EXCEPT !.illegalCounts[active] = @ + 1]
        told == [struck EXCEPT !.events =
                    send(@, <<statusEvent("empty", struck.illegalCounts, isBullet)>>)]
    IN  IF runner = "tournament"
        THEN end(s, buildResult(opponent, "timeout", s), <<>>)
        ELSE IF isBullet /\ flagged(c.clocks[active])
        THEN end(c, buildResult(opponent, "timeout", c),
                 <<statusEvent("flagged", c.illegalCounts, TRUE)>>)
        ELSE IF isEmptyMove(err)
        THEN IF strikeForfeit(mode, told.illegalCounts[active])
             THEN end(told, buildResult(opponent, "illegal", told), <<>>)
             ELSE continue(told)
        ELSE end(c, buildResult(opponent, "timeout", c),
                 <<statusEvent("error", NoCounts, FALSE)>>)

\* fetchMove threw.  /api/match: flag check, then the empty-move strike, then
\* the loss by timeout.  playMatch: the catch block returns the loss at once.
onFetchErr(s, err, moveTime) ==
    LET active == ActiveColor(s.chess)
        opponent == Opponent(active)
        c == charged(s, moveTime)
        struck == [c EXCEPT !.illegalCounts[active] = @ + 1,
                            !.lastIllegal[active] =
                                [moveText |-> EmptyMarker, reason |-> "empty"]]
        told == [struck EXCEPT !.events =
                    send(@, <<statusEvent("empty", struck.illegalCounts, isBullet)>>)]
    IN  IF runner = "tournament"
        THEN end(s, buildResult(opponent, "timeout", s), <<>>)
        ELSE IF isBullet /\ flagged(c.clocks[active])
        THEN end(c, buildResult(opponent, "timeout", c),
                 <<statusEvent("flagged", c.illegalCounts, TRUE)>>)
        ELSE IF isEmptyMove(err)
        THEN IF strikeForfeit(mode, told.illegalCounts[active])
             THEN end(told, buildResult(opponent, "illegal", told), <<>>)
             ELSE continue(told)
        ELSE end(c, buildResult(opponent, "timeout", c),
                 <<statusEvent("error", NoCounts, FALSE)>>)

\* Mutant: the literal execution not kept to the chaos variant.
isChaosMove_anyMode(m, parsedChaos) == parsedChaos # NoMove

\* if (mode === "chaos") { ... if (parsedChaos) {
isChaosMove(m, parsedChaos) == m = "chaos" /\ parsedChaos # NoMove

\* if (!moveResult) { ... continue; }
illegalBranch(s, rawTrimmed, cleaned, inList, fenOk) ==
    LET active == ActiveColor(s.chess)
        opponent == Opponent(active)
        parsedUci == parseUciMove(cleaned)
        executes == isChaosMove(mode, parsedUci)
        reason == IF runner = "tournament" THEN "default"
                  ELSE diagnose(s.chess, parsedUci, inList)
        struck == [s EXCEPT !.illegalCounts[active] = @ + 1,
                            !.lastIllegal[active] =
                                [moveText |-> rawTrimmed, reason |-> reason],
                            !.lib = [asked |-> TRUE, accepted |-> FALSE,
                                     verdict |-> NoVerdict,
                                     rebuilt |-> IF ~executes THEN "none"
                                                 ELSE IF fenOk THEN "ok"
                                                 ELSE "refused"]]
        told == [struck EXCEPT !.events =
                    send(@, <<statusEvent("illegal", struck.illegalCounts, isBullet)>>)]
        chaos == applyChaosMove(fenOf(s.chess), parsedUci, s.chess.turn, s.fullmove)
        pushed == [told EXCEPT !.chess = newChess(chaos.fen),
                               !.fullmove = fullmoveOf(chaos.fen, told.fullmove),
                               !.moves = Append(@, chaos.san),
                               !.byRules = Append(@, FALSE)]
        shown == [pushed EXCEPT !.events =
                    send(@, <<moveEvent(chaos.san, s.ply, active, pushed.illegalCounts,
                                        displayMoveNum(Len(pushed.moves)), "chaos")>>)]
        after == IF executes THEN shown ELSE told
    IN  IF executes /\ ~fenOk
        THEN IF runner = "match"
             THEN end(told, buildResult(opponent, "illegal", told),
                      <<statusEvent("chaosInvalid", told.illegalCounts, isBullet)>>)
             ELSE crash(told)
        ELSE IF strikeForfeit(mode, after.illegalCounts[active])
        THEN end(after, buildResult(opponent, "illegal", after), <<>>)
        ELSE continue(after)

\* Mutant: insufficient material looked at before the repetition.
legalBranch_insufficientFirst(s, moveResult, verdict) ==
    LET active == ActiveColor(s.chess)
        moveUci == uciToken(moveResult)
        num == displayMoveNum(Len(s.moves))
        pos == afterLegalMove(s.chess, moveResult)
        moved == [s EXCEPT !.moves = Append(@, moveUci),
                           !.byRules = Append(@, TRUE),
                           !.chess = pos,
                           !.fullmove = fullmoveOf(pos, s.fullmove),
                           !.illegalCounts[active] = resetStrikes(@),
                           !.lastIllegal[active] = NoIllegal,
                           !.lib = [asked |-> TRUE, accepted |-> TRUE,
                                    verdict |-> verdict, rebuilt |-> "none"]]
        shown == [moved EXCEPT !.events =
                    send(@, <<moveEvent(moveUci, s.ply, active, moved.illegalCounts,
                                        num, "legal")>>)]
    IN  IF verdict.mate THEN end(shown, buildResult(active, "checkmate", shown), <<>>)
        ELSE IF verdict.stale THEN end(shown, resultFromDraw("stalemate", shown), <<>>)
        ELSE IF verdict.insuff THEN end(shown, resultFromDraw("insufficient", shown), <<>>)
        ELSE IF verdict.three THEN end(shown, resultFromDraw("threefold", shown), <<>>)
        ELSE IF verdict.draw THEN end(shown, resultFromDraw("fifty-move", shown), <<>>)
        ELSE continue(shown)

\* The accepted legal move and the terminal checks in their order.
legalBranch(s, moveResult, verdict) ==
    LET active == ActiveColor(s.chess)
        moveUci == uciToken(moveResult)
        num == displayMoveNum(Len(s.moves))
        pos == afterLegalMove(s.chess, moveResult)
        moved == [s EXCEPT !.moves = Append(@, moveUci),
                           !.byRules = Append(@, TRUE),
                           !.chess = pos,
                           !.fullmove = fullmoveOf(pos, s.fullmove),
                           !.illegalCounts[active] = resetStrikes(@),
                           !.lastIllegal[active] = NoIllegal,
                           !.lib = [asked |-> TRUE, accepted |-> TRUE,
                                    verdict |-> verdict, rebuilt |-> "none"]]
        shown == [moved EXCEPT !.events =
                    send(@, <<moveEvent(moveUci, s.ply, active, moved.illegalCounts,
                                        num, "legal")>>)]
    IN  IF verdict.mate THEN end(shown, buildResult(active, "checkmate", shown), <<>>)
        ELSE IF verdict.stale THEN end(shown, resultFromDraw("stalemate", shown), <<>>)
        ELSE IF verdict.three THEN end(shown, resultFromDraw("threefold", shown), <<>>)
        ELSE IF verdict.insuff THEN end(shown, resultFromDraw("insufficient", shown), <<>>)
        ELSE IF verdict.draw THEN end(shown, resultFromDraw("fifty-move", shown), <<>>)
        ELSE continue(shown)

\* fetchMove returned rawMove; `answers` is what the rules library says in
\* this iteration, to each question the branch taken asks of it.
onText(s, text, moveTime, answers) ==
    LET active == ActiveColor(s.chess)
        opponent == Opponent(active)
        c == charged(s, moveTime)
        rawTrimmed == trim(text)
        cleaned == toLowerCase(rawTrimmed)
        moveResult == chessMove(c.chess, rawTrimmed, answers.legal)
    IN  IF isBullet /\ flagged(c.clocks[active])
        THEN end(c, buildResult(opponent, "timeout", c),
                 <<statusEvent("flagged", c.illegalCounts, TRUE)>>)
        ELSE IF isResign(cleaned)
        THEN end(c, buildResult(opponent, "resignation", c),
                 <<moveEvent(RESIGN, s.ply, active, c.illegalCounts, 0, "resign")>>)
        ELSE IF moveResult # NoMove
        THEN legalBranch(c, moveResult, answers.verdict)
        ELSE illegalBranch(c, rawTrimmed, cleaned, answers.inList, answers.fenOk)

----------------------------------------------------------------------------
(* Init and the actions.                                                   *)

config == <<runner, mode, initialClockMs, maxPly, script, request>>
loopVars == <<pc, ply, chess, fullmove, illegalCounts, lastIllegal, moves,
              clocks, events, result, lib, byRules>>
fetchVars == <<attempt, elapsed, timeoutMs, rawMove, prompt, outcomes>>

\* The locals of the loop before its first iteration.
\* Nothing outside the match engine is in use.
NoUnit == [fn |-> "none"]
NoTourney == [busy |-> FALSE, runs |-> <<>>]
NoEvalBar == [enabled |-> FALSE, answered |-> 0]
NoHome == [running |-> FALSE, started |-> 0, stopped |-> {}]

\* The locals of a match at their construction.
FreshLoop ==
    /\ ply = 0
    /\ chess = StartPosition
    /\ fullmove = 1
    /\ illegalCounts = [white |-> 0, black |-> 0]
    /\ lastIllegal = [white |-> NoIllegal, black |-> NoIllegal]
    /\ moves = <<>>
    /\ clocks = [white |-> initialClockMs, black |-> initialClockMs]
    /\ result = NoResult
    /\ lib = NotAsked
    /\ byRules = <<>>
    /\ attempt = 0
    /\ elapsed = 0
    /\ timeoutMs = 0
    /\ rawMove = <<>>
    /\ prompt = NoPrompt
    /\ outcomes = <<>>
    /\ consumer = "reading"
    /\ requests = 0
    /\ think = 0
    /\ fetched = "none"

Fresh ==
    /\ FreshLoop
    /\ unit = NoUnit
    /\ tourney = NoTourney
    /\ evalBar = NoEvalBar
    /\ home = NoHome

\* No match is being played.
NoMatch ==
    /\ runner = "match"
    /\ mode = "strict"
    /\ initialClockMs = 0
    /\ maxPly = 0
    /\ script = "free"
    /\ request = ValidRequest
    /\ response = 0
    /\ pc = "idle"
    /\ events = <<>>
    /\ FreshLoop

engineVars == <<config, loopVars, fetchVars, response, consumer, requests, think, fetched>>

\* A match that has passed the validation of its request, before the first
\* iteration: the stream is open and holds the "Match starting" status.
Started ==
    /\ request = ValidRequest
    /\ response = 200
    /\ pc = "loop"
    /\ events = send(<<>>, <<statusEvent("starting", NoCounts, isBullet)>>)
    /\ Fresh

Init ==
    /\ runner \in Runners
    /\ mode \in Modes
    /\ initialClockMs \in { InitialClock(mode, r) : r \in ClockRequests }
    /\ maxPly = Min(MaxPly, MAX_PLY(runner))
    /\ script = "free"
    /\ Started

\* The head of one loop iteration up to the await: the prompt is built from
\* the current state, and one move request is issued.
StartPly ==
    /\ pc = "loop"
    /\ ply < maxPly
    /\ pc' = "fetch"
    /\ prompt' = buildModelPrompt(fenOf(chess), moves, ActiveColor(chess), mode,
                                  clocks[ActiveColor(chess)], initialClockMs,
                                  lastIllegal[ActiveColor(chess)])
    /\ timeoutMs' = perMoveTimeout(mode, clocks[ActiveColor(chess)])
    /\ attempt' = 1
    /\ elapsed' = 0
    /\ rawMove' = <<>>
    /\ outcomes' = <<>>
    /\ lib' = NotAsked
    /\ think' = 0
    /\ fetched' = "none"
    /\ requests' = requests + 1
    /\ UNCHANGED <<elsewhere, config, ply, chess, fullmove, illegalCounts, lastIllegal,
                   moves, clocks, events, result, byRules, response, consumer>>

\* The loop ran out of plies.
MaxMove ==
    /\ pc = "loop"
    /\ ply >= maxPly
    /\ Install(end(Loop, resultFromDraw("max-move", Loop), <<>>))
    /\ UNCHANGED <<elsewhere, config, fetchVars, response, consumer, requests, think, fetched>>

\* fetchMove calls itself after a backoff: the call that ended with `why`
\* is over, and the next one is issued with the same prompt and timeout.
Retry(why, d, backoff) ==
    /\ attempt' = attempt + 1
    /\ elapsed' = elapsed + d + backoff
    /\ outcomes' = Append(outcomes, why)
    /\ think' = elapsed + d
    /\ UNCHANGED <<elsewhere, config, loopVars, timeoutMs, rawMove, prompt, response,
                   consumer, requests, fetched>>

\* fetchMove returned a text after d more milliseconds.
Returned(text, d, answers) ==
    /\ Install(delivered(Loop, onText(Loop, text, elapsed + d, answers)))
    /\ rawMove' = text
    /\ elapsed' = elapsed + d
    /\ outcomes' = Append(outcomes, "text")
    /\ think' = elapsed + d
    /\ fetched' = "text"
    /\ UNCHANGED <<elsewhere, config, attempt, timeoutMs, prompt, response, consumer, requests>>

\* fetchMove threw after `spent` more milliseconds; the model needed d.
Threw(err, spent, d) ==
    /\ Install(delivered(Loop, onFetchErr(Loop, err, elapsed + spent)))
    /\ elapsed' = elapsed + spent
    /\ outcomes' = Append(outcomes, err)
    /\ think' = elapsed + d
    /\ fetched' = err
    /\ UNCHANGED <<elsewhere, config, attempt, timeoutMs, rawMove, prompt, response,
                   consumer, requests>>

\* The answers the library can give to the questions the iteration asks of
\* it for this text: none is asked when the iteration ends on the flag or on
\* a resignation, chess.move accepts only a text that denotes a move of the
\* side to move, and new Chess(fen) is called only for a chaos move.
consulted(s, text, moveTime) ==
    LET c == charged(s, moveTime)
        parsedUci == parseUciMove(toLowerCase(text))
    IN  IF \/ isBullet /\ flagged(c.clocks[ActiveColor(s.chess)])
           \/ isResign(toLowerCase(text))
        THEN { a \in LibAnswers : ~a.legal /\ a.fenOk }
        ELSE { a \in LibAnswers :
                 /\ a.legal => playable(s.chess, parseUciMove(text))
                 /\ ~a.fenOk => mode = "chaos" /\ parsedUci # NoMove }

\* The model's stream completes before the request timer fires.
ModelAnswers ==
    /\ pc = "fetch"
    /\ \E d \in Latencies, t \in RawTexts :
        /\ d < timeoutMs
        /\ IF trim(t) # <<>> \/ runner = "tournament"
           THEN \E a \in consulted(Loop, trim(t), elapsed + d) :
                    Returned(trim(t), d, a)
           ELSE IF mayRetry(attempt) THEN Retry("empty", d, emptyBackoff(attempt))
           ELSE Threw("empty", d, d)

\* The provider fails before the request timer fires.
ModelFails ==
    /\ pc = "fetch"
    /\ \E d \in Latencies, overloaded \in BOOLEAN :
        /\ d < timeoutMs
        /\ IF overloaded /\ mayRetry(attempt)
           THEN Retry("overloaded", d, overloadBackoff(attempt))
           ELSE Threw(IF overloaded THEN "overloaded" ELSE "failed", d, d)

\* The request timer fires first and aborts the call.
ModelTimesOut ==
    /\ pc = "fetch"
    /\ \E d \in Latencies :
        /\ d >= timeoutMs
        /\ Threw("aborted", timeoutMs, d)

Next == StartPly \/ MaxMove \/ ModelAnswers \/ ModelFails \/ ModelTimesOut

Spec == Init /\ [][Next]_vars

----------------------------------------------------------------------------
(* The endpoint and its consumer: the validation of the request before the *)
(* match, and a consumer that may cancel the stream during a think step.   *)

ServiceInit ==
    /\ runner = "match"
    /\ mode \in Modes
    /\ initialClockMs \in { InitialClock(mode, r) : r \in ClockRequests }
    /\ maxPly = Min(ServicePly, MAX_PLY(runner))
    /\ script = "free"
    /\ request \in MatchRequests
    /\ response = 0
    /\ pc = "request"
    /\ events = <<>>
    /\ Fresh

\* POST up to the construction of the stream.
Post ==
    /\ pc = "request"
    /\ response' = validate(request)
    /\ IF validate(request) = 200
       THEN /\ pc' = "loop"
            /\ events' = send(events, <<statusEvent("starting", NoCounts, isBullet)>>)
       ELSE /\ pc' = "rejected"
            /\ events' = events
    /\ UNCHANGED <<elsewhere, config, ply, chess, fullmove, illegalCounts, lastIllegal, moves,
                   clocks, result, lib, byRules, fetchVars, consumer, requests,
                   think, fetched>>

\* The consumer cancels the stream.  The loop is suspended only inside
\* fetchMove, so this is where a cancellation can fall.
Abort ==
    /\ runner = "match"
    /\ pc = "fetch"
    /\ consumer = "reading"
    /\ consumer' = "aborted"
    /\ UNCHANGED <<elsewhere, config, loopVars, fetchVars, response, requests, think, fetched>>

ServiceNext == Post \/ Abort \/ Next

Service == ServiceInit /\ [][ServiceNext]_vars

----------------------------------------------------------------------------
(* Scripted agents: a pair that shuffles its king's knights out and back   *)
(* for ever, and a pair that never writes a move.  The game being known,   *)
(* so is what the rules library answers, and the loop runs to its real     *)
(* ceiling.                                                                *)

ScriptedInit ==
    /\ runner \in Runners
    /\ mode \in Modes
    /\ initialClockMs \in { InitialClock(mode, r) : r \in ClockRequests }
    /\ maxPly = MAX_PLY(runner)
    /\ script \in Scripts
    /\ Started

\* The scripted agent answers at once.
ScriptedAnswer ==
    /\ pc = "fetch"
    /\ LET t == scriptText(script, chess)
       IN  Returned(t, 0, libraryOnScript(chess, t))

ScriptedNext == StartPly \/ MaxMove \/ ScriptedAnswer

Scripted == ScriptedInit /\ [][ScriptedNext]_vars

----------------------------------------------------------------------------
(* The functions of lib/chess-utils called on their own: parseUciMove on   *)
(* every short text over a few characters, with and without a label, and   *)
(* applyChaosMove on moves between a few squares of two positions.         *)

\* Length of the texts handed to parseUciMove, label apart.
MaxRawLen == 5

\* A file inside and (upper case) at the edge of the board, a rank on it and
\* one off it, and a promotion letter.
ParserChars == {"e", "H", "2", "9", "q"}

RECURSIVE TextsOfLen(_)
TextsOfLen(n) ==
    IF n = 0 THEN { <<>> }
    ELSE { <<c>> \o t : c \in ParserChars, t \in TextsOfLen(n - 1) }

Labels == { <<>>, <<"m","o","v","e",":">>, <<" ","M","o","v","e"," ">> }

ParserInputs ==
    { l \o t : l \in Labels, t \in UNION { TextsOfLen(n) : n \in 0..MaxRawLen } }
    \cup { <<"r","e","s","i","g","n">>, <<"R","e","s","i","g","n","\n">>,
           <<"e","2","-","e","2">>, <<"H","2"," ","-"," ","e","2","=","Q","\n">>,
           <<"e","2","e","2","!">>, <<"e","-","2","e","2","x">> }

ParserCalls ==
    [fn : {"parseUciMove"}, raw : ParserInputs, ret : {NoMove}, done : {FALSE}]

\* The squares chaos moves are tried between: a white pawn, an empty square,
\* a black pawn and the black king.
ChaosSquares == { <<"e","2">>, <<"e","4">>, <<"e","7">>, <<"e","8">> }

ChaosMoves == [from : ChaosSquares, to : ChaosSquares, promotion : {"", "q"}]

\* The starting position, and the position after 1. e4 e5.
ChaosFens ==
    { fenOf(StartPosition),
      [board |-> put(put(put(put(StartBoard, <<"e","2">>, NoPiece),
                             <<"e","4">>, [type |-> "p", color |-> "w"]),
                         <<"e","7">>, NoPiece),
                     <<"e","5">>, [type |-> "p", color |-> "b"]),
       turn |-> "w", fullmove |-> 2] }

ChaosCalls ==
    [fn : {"applyChaosMove"}, fen : ChaosFens, uci : ChaosMoves, color : {"w", "b"},
     fullmoveNumber : {1, 2}, ret : {NoMove}, done : {FALSE}]

UnitsInit ==
    /\ NoMatch
    /\ unit \in ParserCalls \cup ChaosCalls
    /\ tourney = NoTourney
    /\ evalBar = NoEvalBar
    /\ home = NoHome

\* parseUciMove(raw) runs and returns.
CallParseUciMove ==
    /\ unit.fn = "parseUciMove"
    /\ ~unit.done
    /\ unit' = [unit EXCEPT !.ret = parseUciMove(unit.raw), !.done = TRUE]
    /\ UNCHANGED <<engineVars, tourney, evalBar, home>>

\* applyChaosMove(fen, uci, color, fullmoveNumber) runs and returns.
CallApplyChaosMove ==
    /\ unit.fn = "applyChaosMove"
    /\ ~unit.done
    /\ unit' = [unit EXCEPT
                  !.ret = applyChaosMove(unit.fen, unit.uci, unit.color,
                                         unit.fullmoveNumber),
                  !.done = TRUE]
    /\ UNCHANGED <<engineVars, tourney, evalBar, home>>

UnitsNext == CallParseUciMove \/ CallApplyChaosMove

Units == UnitsInit /\ [][UnitsNext]_vars

----------------------------------------------------------------------------
(* The tournament page, app/tournament/page.tsx: startTournament starts    *)
(* min(MAX_PARALLEL, pairings) chains of runNext; a chain runs one match   *)
(* after the other against /api/match until the pairings are used up.      *)
(* stopAll aborts the controllers the cards hold and clears busy; cursor,  *)
(* active and the chains belong to the startTournament call that made      *)
(* them, so the chains of a stopped tournament live on beside the next.    *)

\* Pairings of a tournament.
MaxPairings == 5

\* Tournaments started on the page, with the same players selected.
MaxTournaments == 2

MAX_PARALLEL == 3

\* How the stream of a match ends for runMatch: the end event and done, an
\* AbortError, or any other error.
StreamEnds == {"ended", "aborted", "error"}

\* Math.min(MAX_PARALLEL, pairings.length)
starters(n) == Min(MAX_PARALLEL, n)

\* controller: undefined
NoController == <<0, 0>>

\* The cards startTournament sets: Queued, not running, no controller.
QueuedCards(n) == [i \in 1..n |-> [running |-> FALSE, controller |-> NoController]]

\* The page with n pairings to come from the selected players.
PageWith(n) == [busy |-> FALSE, n |-> n, cards |-> QueuedCards(n), runs |-> <<>>]

\* runMatch up to the await of its fetch: the card of pairing i holds the
\* controller of chain w of tournament r.
registered(cards, i, r, w) ==
    [cards EXCEPT ![i] = [running |-> TRUE, controller |-> <<r, w>>]]

\* The matches with an open /api/match stream: a pair <<r, i>> for pairing i
\* of tournament r, awaited by a chain and not aborted.
openStreams(t) ==
    UNION { { <<r, t.runs[r].chains[w]>> :
                w \in { v \in DOMAIN t.runs[r].chains :
                          t.runs[r].chains[v] # 0 /\ v \notin t.runs[r].aborted } } :
            r \in DOMAIN t.runs }

\* Aborted fetches whose rejection runMatch has not yet caught.
abortsPending(t) == \E r \in DOMAIN t.runs : t.runs[r].aborted # {}

PageInit ==
    /\ NoMatch
    /\ unit = NoUnit
    /\ evalBar = NoEvalBar
    /\ home = NoHome
    /\ tourney \in { PageWith(n) : n \in 1..MaxPairings }

\* startTournament: the cards are reset, and every starter runs runNext up
\* to the await of its runMatch, which has issued its request by then.
StartTournament ==
    /\ ~tourney.busy
    /\ ~abortsPending(tourney)
    /\ Len(tourney.runs) < MaxTournaments
    /\ LET k == starters(tourney.n)
           r == Len(tourney.runs) + 1
       IN  tourney' =
             [tourney EXCEPT
                !.busy = TRUE,
                !.cards = [i \in 1..tourney.n |->
                             IF i <= k
                             THEN [running |-> TRUE, controller |-> <<r, i>>]
                             ELSE [running |-> FALSE, controller |-> NoController]],
                !.runs = Append(@, [cursor |-> k, active |-> k,
                                    chains |-> [w \in 1..k |-> w],
                                    aborted |-> {},
                                    starts |-> [i \in 1..tourney.n |->
                                                  IF i <= k THEN 1 ELSE 0],
                                    stopped |-> FALSE,
                                    finished |-> FALSE])]
    /\ UNCHANGED <<engineVars, unit, evalBar, home>>

\* The next pairing of a chain whose runMatch has returned, if one is left.
\* Mutant: the pairing the chain has just run is taken again.
nextPairing_again(run, w) == run.chains[w]

\* const pairing = pairings[cursor++]
nextPairing(run, w) == run.cursor + 1

\* The runMatch a chain awaits returns; runNext takes the next pairing, if
\* one is left, and runs up to the await of its runMatch.
MatchReturns ==
    /\ \E r \in DOMAIN tourney.runs :
       \E w \in DOMAIN tourney.runs[r].chains, how \in StreamEnds :
        LET run == tourney.runs[r]
            i == run.chains[w]
            j == nextPairing(run, w)
            settled == [tourney.cards EXCEPT
                          ![i] = [running |-> FALSE, controller |-> NoController]]
        IN  /\ i # 0
            /\ how = "aborted" <=> w \in run.aborted
            /\ tourney' =
                 IF run.cursor < tourney.n
                 THEN [tourney EXCEPT
                         !.cards = registered(settled, j, r, w),
                         !.runs[r].cursor = @ + 1,
                         !.runs[r].chains[w] = j,
                         !.runs[r].aborted = @ \ {w},
                         !.runs[r].starts[j] = @ + 1]
                 ELSE [tourney EXCEPT
                         !.cards = settled,
                         !.runs[r].active = @ - 1,
                         !.runs[r].chains[w] = 0,
                         !.runs[r].aborted = @ \ {w}]
    /\ UNCHANGED <<engineVars, unit, evalBar, home>>

\* Promise.all(starters) resolves: setBusy(false), "Tournament finished."
TournamentFinished ==
    /\ \E r \in DOMAIN tourney.runs :
        /\ ~tourney.runs[r].finished
        /\ \A w \in DOMAIN tourney.runs[r].chains : tourney.runs[r].chains[w] = 0
        /\ tourney' = [tourney EXCEPT !.busy = FALSE,
                                      !.runs[r].finished = TRUE]
    /\ UNCHANGED <<engineVars, unit, evalBar, home>>

\* stopAll: every controller a card holds is aborted, every card is marked
\* not running, busy is cleared.  The button needs a card to exist.
StopAll ==
    /\ tourney.runs # <<>>
    /\ ~abortsPending(tourney)
    /\ tourney' =
         [tourney EXCEPT
            !.busy = FALSE,
            !.cards = QueuedCards(tourney.n),
            !.runs = [r \in DOMAIN tourney.runs |->
                        [tourney.runs[r] EXCEPT
                           !.aborted =
                              { w \in DOMAIN tourney.runs[r].chains :
                                  \E i \in 1..tourney.n :
                                      tourney.cards[i].controller = <<r, w>> },
                           !.stopped = @ \/ ~tourney.runs[r].finished]]]
    /\ UNCHANGED <<engineVars, unit, evalBar, home>>

PageNext == StartTournament \/ MatchReturns \/ TournamentFinished \/ StopAll

Page == PageInit /\ [][PageNext]_vars

----------------------------------------------------------------------------
(* The evaluation bar of the match page: queueEvaluation debounces, runEval *)
(* numbers its request, aborts the one before and asks chess-api.com; the   *)
(* answers come back in any order.                                          *)

\* Evaluation requests issued.
MaxEvals == 3

\* Positions to evaluate, and the scores the service may report.
EvalFens == {1, 2}
EvalScores == {-1, 2}

\* How a request can end: data.eval, data.centipawns, neither, a status that
\* is not ok, a failed fetch, or the rejection of an aborted fetch.
EvalAnswers == {"eval", "centipawns", "neither", "notOk", "failed", "AbortError"}

\* evalScore: null, or a number.
NoScore == <<>>

\* Mutant: every answer is taken for the answer to the latest request.
isLatest_always(requestId, current) == TRUE

\* requestId === evalRequestIdRef.current
isLatest(requestId, current) == requestId = current

EvalBarIdle ==
    [enabled |-> TRUE, requestId |-> 0, inflight |-> {}, timer |-> 0,
     score |-> NoScore, status |-> "Idle", answered |-> 0]

EvalInit ==
    /\ NoMatch
    /\ unit = NoUnit
    /\ tourney = NoTourney
    /\ evalBar = EvalBarIdle
    /\ home = NoHome

\* queueEvaluation(fen), called for a move event, an end event, or the like.
queueEvaluation(bar, fenToEval, enabled) ==
    IF ~enabled THEN [bar EXCEPT !.status = "Eval disabled"]
    ELSE [bar EXCEPT !.timer = fenToEval]

QueueEvaluation ==
    /\ \E f \in EvalFens :
          evalBar' = queueEvaluation(evalBar, f, evalBar.enabled)
    /\ UNCHANGED <<engineVars, unit, tourney, home>>

\* The debounce timer fires: runEval up to its fetch.
RunEval ==
    /\ evalBar.timer # 0
    /\ evalBar.requestId < MaxEvals
    /\ evalBar' = [evalBar EXCEPT
                     !.requestId = @ + 1,
                     !.inflight = { [r EXCEPT !.aborted = TRUE] : r \in @ }
                                  \cup { [id |-> evalBar.requestId + 1,
                                          fen |-> evalBar.timer,
                                          aborted |-> FALSE] },
                     !.status = "Evaluating...",
                     !.timer = 0]
    /\ UNCHANGED <<engineVars, unit, tourney, home>>

\* The checkbox: switching off aborts the current request; switching on calls
\* queueEvaluation, which still sees the bar disabled.
ToggleEval ==
    /\ evalBar' =
         IF evalBar.enabled
         THEN [evalBar EXCEPT !.enabled = FALSE,
                              !.inflight = { IF r.id = evalBar.requestId
                                             THEN [r EXCEPT !.aborted = TRUE]
                                             ELSE r : r \in @ },
                              !.status = "Eval disabled"]
         ELSE queueEvaluation([evalBar EXCEPT !.enabled = TRUE], 1, FALSE)
    /\ UNCHANGED <<engineVars, unit, tourney, home>>

\* The fetch of a request ends and runEval resumes.
EvalAnswered ==
    /\ \E r \in evalBar.inflight, a \in EvalAnswers, v \in EvalScores :
        /\ a = "AbortError" => r.aborted
        /\ LET bar == [evalBar EXCEPT !.inflight = @ \ {r}, !.answered = r.id]
               latest == isLatest(r.id, evalBar.requestId)
           IN  evalBar' =
                 IF a \in {"eval", "centipawns"}
                 THEN IF latest THEN [bar EXCEPT !.score = <<v>>, !.status = "OK"]
                      ELSE bar
                 ELSE IF a = "neither"
                 THEN IF latest THEN [bar EXCEPT !.score = NoScore, !.status = "No eval"]
                      ELSE bar
                 ELSE IF r.aborted \/ ~latest THEN bar
                 ELSE [bar EXCEPT !.score = NoScore, !.status = "Eval error"]
    /\ UNCHANGED <<engineVars, unit, tourney, home>>

EvalNext == QueueEvaluation \/ RunEval \/ ToggleEval \/ EvalAnswered

EvalBar == EvalInit /\ [][EvalNext]_vars

----------------------------------------------------------------------------
(* The match page, app/page.tsx: startMatch posts to /api/match and reads  *)
(* the stream line by line, handleEvent applies each event, stopMatch      *)
(* aborts what abortRef holds.  A read loop lives until its stream is done *)
(* or its read rejects, so the loop of an earlier match can outlive the    *)
(* start of the next.                                                      *)

\* Matches started from the page.
MaxMatches == 2

\* Events of one stream that are sent and not yet read.
MaxUnread == 2

StreamEventTypes == {"status", "move", "end"}

\* response.body of a match that was not started
NoLoop == [phase |-> "none", aborted |-> FALSE, unread |-> <<>>, server |-> "none"]

HomeIdle ==
    [running |-> FALSE, started |-> 0, abortRef |-> 0, result |-> 0,
     history |-> <<>>, elo |-> <<>>,
     loops |-> [m \in 1..MaxMatches |-> NoLoop],
     stopped |-> {}]

HomeInit ==
    /\ NoMatch
    /\ unit = NoUnit
    /\ tourney = NoTourney
    /\ evalBar = NoEvalBar
    /\ home = HomeIdle

\* Mutant: the read of an aborted stream still delivers.
readable_aborted(loop) == loop.phase = "read"

\* await reader.read() of a body fetched with signal: controller.signal
readable(loop) == loop.phase = "read" /\ ~loop.aborted

\* handleEvent(event) for the event of match m
handleEvent(h, type, m) ==
    IF type = "end"
    THEN [h EXCEPT !.result = m,
                   !.history = Append(@, m),
                   !.running = FALSE,
                   !.elo = Append(@, m)]
    ELSE h

RECURSIVE handleLines(_, _, _)
\* for (const line of lines) { ... handleEvent(parsed); }
handleLines(h, lines, m) ==
    IF lines = <<>> THEN h
    ELSE handleLines(handleEvent(h, Head(lines), m), Tail(lines), m)

\* startMatch up to the await of its fetch; the button is disabled while
\* running.
StartMatch ==
    /\ ~home.running
    /\ home.started < MaxMatches
    /\ LET m == home.started + 1
       IN  home' = [home EXCEPT
                      !.running = TRUE,
                      !.started = m,
                      !.result = 0,
                      !.abortRef = m,
                      !.loops[m] = [phase |-> "fetch", aborted |-> FALSE,
                                    unread |-> <<>>, server |-> "playing"]]
    /\ UNCHANGED <<engineVars, unit, tourney, evalBar>>

\* The fetch resolves with an ok response: the read loop begins.
StreamOpens ==
    /\ \E m \in 1..MaxMatches :
        /\ home.loops[m].phase = "fetch"
        /\ ~home.loops[m].aborted
        /\ home' = [home EXCEPT !.loops[m].phase = "read"]
    /\ UNCHANGED <<engineVars, unit, tourney, evalBar>>

\* The fetch rejects (aborted, or the network failed), or the response is not
\* ok: startMatch returns before its try block.
StartFails ==
    /\ \E m \in 1..MaxMatches :
        /\ home.loops[m].phase = "fetch"
        /\ home' = [home EXCEPT !.running = FALSE,
                                !.loops[m].phase = "over"]
    /\ UNCHANGED <<engineVars, unit, tourney, evalBar>>

\* The engine sends an event of match m, the end event last.
ServerSends ==
    /\ \E m \in 1..MaxMatches, type \in StreamEventTypes :
        /\ home.loops[m].phase = "read"
        /\ ~home.loops[m].aborted
        /\ home.loops[m].server = "playing"
        /\ Len(home.loops[m].unread) < MaxUnread
        /\ home' = [home EXCEPT
                      !.loops[m].unread = Append(@, type),
                      !.loops[m].server = IF type = "end" THEN "ended" ELSE @]
    /\ UNCHANGED <<engineVars, unit, tourney, evalBar>>

\* controller.close() of the engine reaches the page.
ServerCloses ==
    /\ \E m \in 1..MaxMatches :
        /\ home.loops[m].phase = "read"
        /\ home.loops[m].server = "ended"
        /\ home' = [home EXCEPT !.loops[m].server = "closed"]
    /\ UNCHANGED <<engineVars, unit, tourney, evalBar>>

\* reader.read() resolves with a chunk of k lines, each handled in turn.
ReadChunk ==
    /\ \E m \in 1..MaxMatches :
        /\ readable(home.loops[m])
        /\ \E k \in 1..Len(home.loops[m].unread) :
              home' = handleLines(
                        [home EXCEPT !.loops[m].unread =
                                        SubSeq(@, k + 1, Len(@))],
                        SubSeq(home.loops[m].unread, 1, k), m)
    /\ UNCHANGED <<engineVars, unit, tourney, evalBar>>

\* reader.read() resolves with done, or rejects (AbortError after an abort,
\* a stream error otherwise): the finally block runs.
ReadEnds ==
    /\ \E m \in 1..MaxMatches :
        /\ home.loops[m].phase = "read"
        /\ \/ home.loops[m].aborted
           \/ home.loops[m].unread = <<>>
        /\ home' = [home EXCEPT !.abortRef = 0,
                                !.running = FALSE,
                                !.loops[m].phase = "over",
                                !.loops[m].unread = <<>>]
    /\ UNCHANGED <<engineVars, unit, tourney, evalBar>>

\* stopMatch; the button is disabled unless running.  The match the user
\* stops is the one started last.
StopMatch ==
    /\ home.running
    /\ home' = [home EXCEPT
                  !.loops = [m \in 1..MaxMatches |->
                               IF m = home.abortRef
                               THEN [@[m] EXCEPT !.aborted = TRUE]
                               ELSE @[m]],
                  !.running = FALSE,
                  !.stopped = @ \cup {home.started}]
    /\ UNCHANGED <<engineVars, unit, tourney, evalBar>>

HomeNext ==
    \/ StartMatch
    \/ StreamOpens
    \/ StartFails
    \/ ServerSends
    \/ ServerCloses
    \/ ReadChunk
    \/ ReadEnds
    \/ StopMatch

Home == HomeInit /\ [][HomeNext]_vars

----------------------------------------------------------------------------
(* Vocabulary of the properties.                                           *)

\* The step ends a think step: the loop body after the await runs in it.
Completes == pc = "fetch" /\ pc' # "fetch"

\* The events the step emits.
Emitted == SubSeq(events', Len(events) + 1, Len(events'))

\* The step accepts a legal move of color c.
LegalMoveBy(c) ==
    /\ Completes
    /\ ActiveColor(chess) = c
    /\ moves' # moves
    /\ lastIllegal'[c] = NoIllegal

\* The step rejects an attempt of color c: an illegal move or an empty response.
RejectedAttemptBy(c) ==
    /\ Completes
    /\ ActiveColor(chess) = c
    /\ fetched' \in {"text", "empty"}
    /\ ~LegalMoveBy(c)
    /\ result'.reason \notin {"timeout", "resignation"}

LastEvent == events[Len(events)]

----------------------------------------------------------------------------
(* C1: in /api/match the stream holds exactly one end event once the match *)
(* is over, none before, and the end event is the last event emitted: an   *)
(* end event sits only at the last position, it is there exactly when the  *)
(* stream is closed, and it carries the Match Result.                      *)
C1_OneEndEventLast ==
    runner = "match" =>
        /\ \A i \in 1..Len(events) : events[i].type = "end" => i = Len(events)
        /\ (pc = "done") <=> (events # <<>> /\ LastEvent.type = "end")
        /\ (pc = "done") <=> (result # NoResult)
        /\ pc = "done" => LastEvent.result = result
        /\ pc \in {"loop", "fetch", "done"}

C1_Witness ==
    /\ runner = "match"
    /\ pc = "done"
    /\ Len(events) >= 4
    /\ LastEvent.type = "end"
    /\ \E i \in 1..Len(events) : events[i].type = "move"

(* C2: a match never stops without a Match Result: whenever the ply loop   *)
(* is no longer running (neither at the head of an iteration nor awaiting  *)
(* the model) a result has been produced.                                  *)
C2_NeverStuck == pc \in {"loop", "fetch"} \/ result # NoResult

(* C3: in the strict and timed variants a strike counter never passes 3,   *)
(* and when it is 3 the match is over with reason "illegal" and the other  *)
(* color as winner; a match forfeited before any move was accepted ended   *)
(* after exactly 3 move requests, all by white.                            *)
C3_ThreeStrikesForfeit ==
    mode \in {"strict", "bullet"} =>
        /\ \A c \in Colors :
              illegalCounts[c] >= StrikeLimit =>
                  /\ illegalCounts[c] = StrikeLimit
                  /\ pc = "done"
                  /\ result.reason = "illegal"
                  /\ result.winner = Opponent(c)
        /\ (pc = "done" /\ result.reason = "illegal" /\ moves = <<>>) =>
              /\ result.winner = "black"
              /\ illegalCounts["white"] = StrikeLimit
              /\ requests = StrikeLimit

C3_Witness ==
    /\ mode = "strict"
    /\ pc = "done"
    /\ result.reason = "illegal"
    /\ result.winner = "black"
    /\ moves = <<>>
    /\ requests = 3
    /\ lastIllegal["white"].moveText = <<"z","z","z","z">>

(* C4: in the chaos variant strikes never end the match: a result with     *)
(* reason "illegal" comes only from a chaos move whose position the rules  *)
(* library refused (the status event before the end event says so), never  *)
(* from the strike count, however large.                                   *)
C4_ChaosNoStrikeForfeit ==
    (mode = "chaos" /\ result # NoResult /\ result.reason = "illegal") =>
        /\ runner = "match"
        /\ Len(events) >= 2
        /\ events[Len(events) - 1].kind = "chaosInvalid"

C4_Witness ==
    /\ mode = "chaos"
    /\ illegalCounts["white"] >= StrikeLimit
    /\ pc = "done"
    /\ result.reason = "max-move"

(* C5 as stated: in the chaos variant every illegal attempt, an            *)
(* unparseable one included, is executed and appended to the moves.        *)
C5_EveryIllegalAttemptExecutes ==
    [][ (mode = "chaos" /\ Completes /\ fetched' = "text"
           /\ \E c \in Colors : illegalCounts'[c] = illegalCounts[c] + 1)
        => Len(moves') = Len(moves) + 1 ]_vars

(* C5 amended: in the chaos variant an illegal attempt is executed and     *)
(* appended to the moves exactly when its text parses to a square pair and *)
(* the rules library accepts the resulting position; an unparseable        *)
(* attempt, or one whose position is refused, leaves the moves unchanged.  *)
C5_ParseableAttemptsExecute ==
    [][ \A c \in Colors :
          (mode = "chaos" /\ Completes /\ fetched' = "text"
             /\ illegalCounts'[c] = illegalCounts[c] + 1)
          => LET parsed == parseUciMove(toLowerCase(lastIllegal'[c].moveText))
             IN  IF parsed # NoMove /\ pc' = "loop"
                 THEN moves' = Append(moves, uciToken(parsed))
                 ELSE moves' = moves ]_vars

C5_Witness ==
    /\ mode = "chaos"
    /\ moves = << <<"e","2","e","4">> >>
    /\ lastIllegal["white"].moveText = <<"e","2","e","4">>
    /\ lastIllegal["black"].moveText = <<"z","z","z","z">>
    /\ illegalCounts["black"] = 1

C7_OverrunReportsZero ==
    [][ (isBullet /\ Completes /\ think' > clocks[ActiveColor(chess)])
        => /\ pc' = "done"
           /\ result'.reason = "timeout"
           /\ result'.winner = Opponent(ActiveColor(chess))
           /\ result'.clocks[ActiveColor(chess)] = 0 ]_vars

(* C7 amended: in the timed variant, whenever the acting agent needs       *)
(* longer than its remaining clock, the match ends with reason "timeout"   *)
(* and the opponent wins; the loser's reported clock is its remaining      *)
(* clock less the measured think time, floored at 0 (playMatch reports the *)
(* uncharged clock when the call failed), so it is 0 only when the         *)
(* measured time, which the per-move timeout cuts, reached the clock.      *)
C7_OverrunLosesOnTime ==
    [][ (isBullet /\ Completes /\ think' > clocks[ActiveColor(chess)])
        => LET active == ActiveColor(chess)
               left == clocks[active] - elapsed'
           IN  /\ pc' = "done"
               /\ result'.reason = "timeout"
               /\ result'.winner = Opponent(active)
               /\ result'.clocks[active] =
                      IF runner = "tournament" /\ fetched' # "text"
                      THEN clocks[active]
                      ELSE IF left > 0 THEN left ELSE 0 ]_vars

C7_Witness ==
    /\ isBullet
    /\ runner = "match"
    /\ pc = "done"
    /\ think > initialClockMs
    /\ result.reason = "timeout"
    /\ result.clocks[ActiveColor(chess)] = initialClockMs - MOVE_TIMEOUT_MS

(* C8: in the timed variant, when the acting side's clock is at or below   *)
(* zero after the think step, the match ends in that step with reason      *)
(* "timeout" and the opponent as winner, whatever the agent returned: no   *)
(* strike is added, no move is applied, and /api/match emits only the flag *)
(* status and the end event.                                               *)
C8_FlagFirst ==
    [][ (isBullet /\ Completes /\ clocks'[ActiveColor(chess)] <= 0)
        => /\ pc' = "done"
           /\ result'.reason = "timeout"
           /\ result'.winner = Opponent(ActiveColor(chess))
           /\ illegalCounts' = illegalCounts
           /\ lastIllegal' = lastIllegal
           /\ moves' = moves
           /\ chess' = chess
           /\ runner = "match" =>
                 /\ Len(Emitted) = 2
                 /\ Emitted[1].kind = "flagged"
                 /\ Emitted[2].type = "end" ]_vars

C8_Witness ==
    /\ isBullet
    /\ pc = "done"
    /\ fetched = "text"
    /\ result.reason = "timeout"
    /\ clocks[ActiveColor(chess)] = 0

C10_HardFailureLoses ==
    [][ (Completes /\ fetched' \in {"failed", "overloaded", "aborted"})
        => /\ pc' = "done"
           /\ result'.reason = "timeout"
           /\ result'.winner = Opponent(ActiveColor(chess))
           /\ chess' = chess
           /\ fullmove' = fullmove
           /\ moves' = moves
           /\ illegalCounts' = illegalCounts
           /\ requests' = requests
           /\ result'.moves = moves
           /\ result'.illegalCounts = illegalCounts ]_vars

C10_Witness ==
    /\ pc = "done"
    /\ fetched = "failed"
    /\ attempt = 1
    /\ moves # <<>>
    /\ result.reason = "timeout"
    /\ result.winner = Opponent(ActiveColor(chess))

\* The think step ends on an empty response of the agent: /api/match gets
\* fetchMove's "Empty move response", playMatch gets the text "".
EmptyResponse ==
    /\ Completes
    /\ \/ fetched' = "empty"
       \/ fetched' = "text" /\ rawMove' = <<>>

\* The step counts a strike against color c and changes nothing else of the
\* game: the same color is asked again, or the strike forfeits the match.
StrikeOnly(c) ==
    /\ illegalCounts' = [illegalCounts EXCEPT ![c] = @ + 1]
    /\ chess' = chess
    /\ fullmove' = fullmove
    /\ moves' = moves
    /\ IF mode \in {"strict", "bullet"} /\ illegalCounts'[c] = StrikeLimit
       THEN /\ pc' = "done"
            /\ result'.reason = "illegal"
            /\ result'.winner = Opponent(c)
       ELSE /\ pc' = "loop"
            /\ result' = NoResult
            /\ ActiveColor(chess') = c

(* C11 as stated: an empty response is never a timeout loss: it adds one   *)
(* strike to the acting color, leaves position and history unchanged, and  *)
(* the same color retries unless the strict/timed limit of 3 forfeits the  *)
(* match with reason "illegal".                                            *)
C11_EmptyNeverTimeout ==
    [][ EmptyResponse => StrikeOnly(ActiveColor(chess)) ]_vars

(* C11 amended: an empty response is a strike unless, in the timed         *)
(* variant, the think step has used up the acting side's clock: then the   *)
(* match is lost on time with no strike added.  Otherwise it adds one      *)
(* strike, leaves position and history unchanged, and the same color       *)
(* retries unless the strict/timed limit of 3 forfeits with "illegal".     *)
C11_EmptyStrikesUnlessFlagged ==
    [][ EmptyResponse =>
          IF isBullet /\ clocks'[ActiveColor(chess)] <= 0
          THEN /\ pc' = "done"
               /\ result'.reason = "timeout"
               /\ result'.winner = Opponent(ActiveColor(chess))
               /\ illegalCounts' = illegalCounts
               /\ moves' = moves
          ELSE StrikeOnly(ActiveColor(chess)) ]_vars

C11_Witness ==
    /\ fetched = "empty"
    /\ pc = "done"
    /\ result.reason = "illegal"
    /\ result.winner = "black"
    /\ illegalCounts["white"] = StrikeLimit
    /\ lastIllegal["white"].moveText = EmptyMarker
    /\ moves = <<>>

\* The think step ends on a text that is the resignation token once trimmed
\* and lower-cased.
ResignationText ==
    /\ Completes
    /\ fetched' = "text"
    /\ toLowerCase(trim(rawMove')) = RESIGN

\* The step ends the match by resignation of color c: nothing joins the move
\* history, and /api/match emits the move event carrying the token and then
\* the end event.
Resigns(c) ==
    /\ pc' = "done"
    /\ result'.reason = "resignation"
    /\ result'.winner = Opponent(c)
    /\ moves' = moves
    /\ result'.moves = moves
    /\ illegalCounts' = illegalCounts
    /\ runner = "match" =>
          /\ Len(Emitted) = 2
          /\ Emitted[1].type = "move"
          /\ Emitted[1].move = RESIGN
          /\ Emitted[1].color = c
          /\ Emitted[2].type = "end"
          /\ Emitted[2].result = result'

(* C12 as stated: a text equal to the resignation token, trimmed and       *)
(* compared case-insensitively, ends the match with reason "resignation"   *)
(* and the opponent as winner; the move event carrying the token comes     *)
(* immediately before the end event and the move history gains nothing.    *)
C12_ResignationEnds ==
    [][ ResignationText => Resigns(ActiveColor(chess)) ]_vars

(* C12 amended: the same, unless the match is timed and the think step has *)
(* used up the acting side's clock: then the match is lost on time and the *)
(* resignation is not looked at.                                           *)
C12_ResignationEndsUnlessFlagged ==
    [][ ResignationText =>
          IF isBullet /\ clocks'[ActiveColor(chess)] <= 0
          THEN /\ pc' = "done"
               /\ result'.reason = "timeout"
               /\ result'.winner = Opponent(ActiveColor(chess))
               /\ moves' = moves
          ELSE Resigns(ActiveColor(chess)) ]_vars

C12_Witness ==
    /\ runner = "match"
    /\ pc = "done"
    /\ result.reason = "resignation"
    /\ result.winner = "black"
    /\ result.moves = <<>>
    /\ requests = 1
    /\ rawMove = <<"R","e","s","i","g","n">>
    /\ Len(events) = 3
    /\ events[2].move = RESIGN
    /\ events[3].type = "end"

\* The reason the fixed order of the terminal checks gives for what the
\* library reports of the position: the first condition that holds.
firstTerminal(v) ==
    IF v.mate THEN "checkmate"
    ELSE IF v.stale THEN "stalemate"
    ELSE IF v.three THEN "threefold"
    ELSE IF v.insuff THEN "insufficient"
    ELSE IF v.draw THEN "fifty-move"
    ELSE "none"

(* C13: after an applied legal move the reported reason is the first of    *)
(* checkmate, stalemate, threefold, insufficient, other draw that the      *)
(* library reports of the new position; checkmate makes the mover the      *)
(* winner, every other one is a draw, and when none holds the match goes   *)
(* on without a result.                                                    *)
C13_TerminalPriority ==
    [][ (Completes /\ lib'.accepted) =>
          LET reason == firstTerminal(lib'.verdict)
          IN  /\ result'.reason = reason
              /\ reason = "checkmate" => result'.winner = ActiveColor(chess)
              /\ reason \notin {"checkmate", "none"} => result'.winner = "draw"
              /\ reason = "none" <=> pc' = "loop"
              /\ reason # "none" <=> pc' = "done" ]_vars

C13_Witness ==
    /\ pc = "done"
    /\ lib.accepted
    /\ lib.verdict.three
    /\ lib.verdict.insuff
    /\ result.reason = "threefold"
    /\ result.winner = "draw"

\* The ply ceiling of the runner, as its route file configures it.
Ceiling == IF runner = "match" THEN MatchMaxPly ELSE TournamentMaxPly

(* C14 as stated: a pair of agents that always shuffles its knights out    *)
(* and back (legal moves, no capture, no check) draws with reason          *)
(* "max-move" after exactly the ply ceiling.                               *)
C14_ShuffleReachesCeiling ==
    (script = "shuffle" /\ pc = "done") =>
        /\ result.reason = "max-move"
        /\ result.winner = "draw"
        /\ ply = Ceiling

(* C14 amended: the loop never passes the ply ceiling (400 in /api/match,  *)
(* 300 in the tournament runner) and asks for at most that many moves; a   *)
(* match ends with reason "max-move" only as a draw after exactly that     *)
(* many iterations; and the shuffling pair never gets there, its match is  *)
(* drawn with reason "threefold" after 8 moves, when the starting position *)
(* stands for the third time.                                              *)
C14_CeilingOrThreefold ==
    /\ ply <= Ceiling
    /\ requests <= Ceiling
    /\ (pc = "done" /\ result.reason = "max-move") =>
          /\ result.winner = "draw"
          /\ ply = Ceiling
          /\ requests = Ceiling
    /\ (script = "shuffle" /\ pc = "done") =>
          /\ result.reason = "threefold"
          /\ result.winner = "draw"
          /\ Len(result.moves) = 8
          /\ chess.board = StartBoard

C14_Witness ==
    /\ runner = "match"
    /\ script = "unparseable"
    /\ pc = "done"
    /\ result.reason = "max-move"
    /\ ply = 400
    /\ requests = 400
    /\ moves = <<>>

\* The answer of a replay that the rules library has stopped.
Refused == [board |-> StartBoard, turn |-> "none", fullmove |-> 0]

\* Replaying a move list through the rules library, from position ch: every
\* token is parsed and handed to chess.move, which accepts in a position what
\* it accepted there during the match (flags) and nothing that is not a move
\* of the side to move.  The position reached, or Refused.
RECURSIVE replay(_, _, _)
replay(ms, flags, ch) ==
    IF ms = <<>> THEN fenOf(ch)
    ELSE LET m == chessMove(ch, Head(ms), Head(flags))
         IN  IF m = NoMove THEN Refused
             ELSE replay(Tail(ms), Tail(flags), afterLegalMove(ch, m))

C16_AbortObserved ==
    [][ consumer' = "aborted" =>
          /\ pc' # "fetch"
          /\ attempt' = attempt
          /\ requests' = requests
          /\ events' = events ]_vars

(* C17: when the position a chaos move yields is one the rules library     *)
(* refuses to be built from, the step ends the match with reason "illegal" *)
(* against the side that played the move; the rejected move joins neither  *)
(* the history nor the stream, and the failure does not leave the match    *)
(* without a result.                                                       *)
C17_ChaosRebuildFailureForfeits ==
    [][ (Completes /\ lib'.rebuilt = "refused") =>
          /\ pc' = "done"
          /\ result'.reason = "illegal"
          /\ result'.winner = Opponent(ActiveColor(chess))
          /\ moves' = moves
          /\ result'.moves = moves
          /\ chess' = chess
          /\ \A i \in 1..Len(Emitted) : Emitted[i].type # "move"
          /\ runner = "match" => Emitted[Len(Emitted)].type = "end" ]_vars

\* The outcomes of a model call that fetchMove answers with another call.
Retryable == IF runner = "match" THEN {"overloaded", "empty"} ELSE {"overloaded"}

(* C18: one fetchMove invocation makes at most 3 model calls, overload     *)
(* retries and empty-response retries counted together: every call but the *)
(* last of a ply ended in an overload (or, in /api/match, an empty text),  *)
(* and a call that ended in any other error or in the request timeout is   *)
(* the last one of its ply.                                                *)
C18_RetryBudget ==
    /\ attempt <= MaxAttempts
    /\ Len(outcomes) <= MaxAttempts
    /\ pc = "fetch" =>
          /\ attempt >= 1
          /\ Len(outcomes) = attempt - 1
          /\ \A i \in 1..Len(outcomes) : outcomes[i] \in Retryable
    /\ (pc # "fetch" /\ outcomes # <<>>) =>
          /\ Len(outcomes) = attempt
          /\ \A i \in 1..(Len(outcomes) - 1) : outcomes[i] \in Retryable
    /\ \A i \in 1..Len(outcomes) :
          outcomes[i] \in {"failed", "aborted"} => (i = Len(outcomes) /\ pc = "done")

C18_Witness ==
    /\ runner = "match"
    /\ pc = "done"
    /\ attempt = MaxAttempts
    /\ outcomes = <<"overloaded", "empty", "overloaded">>
    /\ fetched = "overloaded"
    /\ result.reason = "timeout"

(* C19: a request that lacks whiteModel or blackModel is rejected before   *)
(* the match starts: once POST has handled it the response is a 4xx status *)
(* and no stream, and for ever no model call is made and no status, move   *)
(* or end event is emitted.                                                *)
C19_MissingModelRejected ==
    (falsy(request.whiteModel) \/ falsy(request.blackModel)) =>
        /\ pc \in {"request", "rejected"}
        /\ pc = "rejected" => response \in {400, 401}
        /\ events = <<>>
        /\ requests = 0
        /\ attempt = 0
        /\ result = NoResult

C19_Witness ==
    /\ pc = "rejected"
    /\ request.json
    /\ request.key
    /\ request.whiteModel = [given |-> TRUE, text |-> <<"m">>]
    /\ request.blackModel = [given |-> TRUE, text |-> <<>>]
    /\ response = 400
    /\ events = <<>>

(* C20: at most one model request is in flight: a move request is issued   *)
(* only from the head of an iteration, when no call is pending, and a      *)
(* retry only after the pending call has ended; and the prompt of the      *)
(* pending request is the one built from the state the previous iteration  *)
(* left: the latest position, side to move, move history and the acting    *)
(* side's last rejected move.                                              *)
C20_SequentialPlies ==
    [][ /\ requests' # requests =>
              /\ pc = "loop"
              /\ pc' = "fetch"
              /\ requests' = requests + 1
              /\ attempt' = 1
              /\ outcomes' = <<>>
        /\ (pc = "fetch" /\ pc' = "fetch") =>
              /\ attempt' = attempt + 1
              /\ Len(outcomes') = attempt
              /\ prompt' = prompt
        /\ pc' = "fetch" =>
              /\ prompt'.fen = fenOf(chess')
              /\ prompt'.color = ActiveColor(chess')
              /\ prompt'.historyTail = historyTail(moves')
              /\ prompt'.trimmedCount + Len(prompt'.historyTail) = Len(moves')
              /\ prompt'.lastMoveLine = lastIllegal'[ActiveColor(chess')]
              /\ isBullet =>
                    prompt'.clockSeconds = clocks'[ActiveColor(chess')] \div 1000 ]_vars

C20_Witness ==
    /\ pc = "fetch"
    /\ requests = 3
    /\ attempt = 2
    /\ prompt.color = "black"
    /\ prompt.historyTail = << <<"e","2","e","4">> >>
    /\ prompt.lastMoveLine.moveText = <<"z","z","z","z">>
    /\ at(prompt.fen.board, <<"e","4">>).type = "p"

(* C21: parseUciMove returns a structured move exactly when the text,      *)
(* lower-cased, stripped of every non-alphanumeric character and of a      *)
(* leading "move" label, has length 4 or 5 and both its first two and its  *)
(* next two characters name a square a1..h8; the move then has these two   *)
(* squares and the fifth character as promotion when it is one of q, r, b, *)
(* n.  For every other text it returns null.                               *)
C21_ParsesExactlyUciTexts ==
    (unit.fn = "parseUciMove" /\ unit.done) =>
        LET c == stripMoveLabel(stripNonAlnum(toLowerCase(unit.raw)))
            wellFormed == /\ Len(c) \in {4, 5}
                          /\ SubSeq(c, 1, 2) \in Squares
                          /\ SubSeq(c, 3, 4) \in Squares
        IN  IF wellFormed
            THEN /\ unit.ret # NoMove
                 /\ unit.ret.from = SubSeq(c, 1, 2)
                 /\ unit.ret.to = SubSeq(c, 3, 4)
                 /\ unit.ret.promotion =
                       (IF Len(c) = 5 /\ c[5] \in {"q", "r", "b", "n"} THEN c[5] ELSE "")
            ELSE unit.ret = NoMove

C21_Witness ==
    /\ unit.fn = "parseUciMove"
    /\ unit.done
    /\ unit.raw = <<"H","2"," ","-"," ","e","2","=","Q","\n">>
    /\ unit.ret.from = <<"h","2">>
    /\ unit.ret.to = <<"e","2">>
    /\ unit.ret.promotion = "q"

(* C22: in the client-run tournament at most 3 matches have an open        *)
(* /api/match stream at any moment, whatever the number of pairings and    *)
(* the order in which matches finish.                                      *)
C22_AtMostThreeRunning ==
    Cardinality(openStreams(tourney)) <= MAX_PARALLEL

(* C23: only the answer to the most recently issued evaluation request can *)
(* update the evaluation bar: when the answer (or error) of an earlier     *)
(* request arrives after a later request was issued, neither the score nor *)
(* the status changes, in whatever order the answers arrive.               *)
C23_OnlyLatestEvalUpdates ==
    [][ (evalBar'.answered # evalBar.answered
         /\ evalBar'.answered # evalBar.requestId)
        => /\ evalBar'.score = evalBar.score
           /\ evalBar'.status = evalBar.status
           /\ evalBar'.requestId = evalBar.requestId ]_vars

C23_Witness ==
    /\ evalBar.requestId = 3
    /\ evalBar.answered = 1
    /\ evalBar.score = <<2>>
    /\ evalBar.status = "OK"
    /\ evalBar.inflight = {}

(* C24: three strikes forfeit in every non-chaos variant: for any mode     *)
(* value the match endpoint accepts other than "chaos", a color that       *)
(* reaches 3 consecutive strikes loses with reason "illegal".              *)
C24_ThreeStrikesForfeitUnlessChaos ==
    \A c \in {"white", "black"} :
        (runner = "match" /\ mode # "chaos" /\ illegalCounts[c] >= StrikeLimit) =>
            /\ pc = "done"
            /\ result # NoResult
            /\ result.reason = "illegal"
            /\ result.winner = Opponent(c)

(* C25: in the timed variant both clocks are never negative and never      *)
(* increase; the completion of a think step charges only the clock of the  *)
(* side that just acted, with the measured think time and floored at zero  *)
(* (playMatch leaves it uncharged when the call failed), and leaves the    *)
(* opponent's clock alone; no other step touches a clock.  In the untimed  *)
(* variants the clocks stay at their initial 0, no event reports a clock   *)
(* and the result carries none.                                            *)
C25_Clocks ==
    [][ LET active == ActiveColor(chess)
        IN  /\ \A c \in Colors : 0 <= clocks'[c] /\ clocks'[c] <= clocks[c]
            /\ ~Completes => clocks' = clocks
            /\ (isBullet /\ Completes /\ pc' # "closed") =>
                  /\ clocks'[Opponent(active)] = clocks[Opponent(active)]
                  /\ clocks'[active] =
                        IF runner = "tournament" /\ fetched' # "text"
                        THEN clocks[active]
                        ELSE IF clocks[active] > elapsed'
                             THEN clocks[active] - elapsed' ELSE 0
            /\ ~isBullet =>
                  /\ clocks' = [white |-> 0, black |-> 0]
                  /\ \A i \in 1..Len(events') : ~events'[i].clocked
                  /\ result' # NoResult => result'.clocks = NoClocks ]_vars

C25_Witness ==
    /\ isBullet
    /\ runner = "match"
    /\ pc = "done"
    /\ clocks["black"] = 0
    /\ 0 < clocks["white"]
    /\ clocks["white"] < initialClockMs
    /\ result.clocks = clocks
    /\ \E i \in 1..Len(events) : events[i].clocked

(* C26: in the strict and timed variants a rejected attempt that leaves    *)
(* the color below the strike limit changes neither the position, the side *)
(* to move nor the move history and emits no move event; the loop goes on, *)
(* and the next iteration asks the side to move, the same color, again.    *)
C26_RejectedAttemptRetries ==
    [][ /\ \A c \in Colors :
            (mode \in {"strict", "bullet"} /\ RejectedAttemptBy(c)
             /\ illegalCounts'[c] < StrikeLimit)
            => /\ chess' = chess
               /\ fullmove' = fullmove
               /\ moves' = moves
               /\ byRules' = byRules
               /\ \A i \in 1..Len(Emitted) : Emitted[i].type # "move"
               /\ pc' = "loop"
               /\ result' = NoResult
               /\ ActiveColor(chess') = c
               /\ lastIllegal'[c] # NoIllegal
        /\ (pc = "loop" /\ pc' = "fetch") =>
               /\ prompt'.color = ActiveColor(chess)
               /\ prompt'.fen = fenOf(chess) ]_vars

C26_Witness ==
    /\ mode = "strict"
    /\ runner = "match"
    /\ pc = "fetch"
    /\ moves = << <<"e","2","e","4">> >>
    /\ illegalCounts["black"] = 1
    /\ lastIllegal["black"].reason = "nopiece"
    /\ prompt.color = "black"
    /\ events[Len(events)].kind = "illegal"

(* C27: the prompt built for a color carries the corrective note (the      *)
(* rejected text and the reason) exactly when that color's latest attempt  *)
(* was rejected and it has made no legal move since: in every state the    *)
(* remembered rejection of a color is set if and only if its strike        *)
(* counter is above 0, a rejected attempt remembers the rejection, an      *)
(* accepted legal move clears it, and the prompt of an iteration carries   *)
(* what is remembered for the color it asks.                               *)
C27_CorrectiveNote ==
    [][ /\ \A c \in Colors :
            /\ lastIllegal[c] # NoIllegal <=> illegalCounts[c] > 0
            /\ lastIllegal'[c] # NoIllegal <=> illegalCounts'[c] > 0
            /\ RejectedAttemptBy(c) =>
                  /\ lastIllegal'[c] # NoIllegal
                  /\ lastIllegal'[c].moveText =
                        IF fetched' = "empty" THEN EmptyMarker ELSE trim(rawMove')
            /\ (Completes /\ ActiveColor(chess) = c /\ lib'.accepted) =>
                  lastIllegal'[c] = NoIllegal
            /\ (Completes /\ ActiveColor(chess) # c) =>
                  lastIllegal'[c] = lastIllegal[c]
        /\ pc' = "fetch" =>
              /\ prompt'.color = ActiveColor(chess')
              /\ prompt'.lastMoveLine = lastIllegal'[prompt'.color]
              /\ prompt'.lastMoveLine # NoIllegal
                    <=> illegalCounts'[prompt'.color] > 0 ]_vars

C27_Witness ==
    /\ runner = "match"
    /\ pc = "fetch"
    /\ Len(moves) = 1
    /\ prompt.color = "black"
    /\ prompt.lastMoveLine = NoIllegal
    /\ lastIllegal["white"] = NoIllegal
    /\ \E i \in 1..Len(events) :
          /\ events[i].kind = "empty"
          /\ events[i].illegalCounts["white"] = 1

\* The reasons the terminal checks after a legal move give.
TerminalReasons == {"checkmate", "stalemate", "threefold", "insufficient", "fifty-move"}

\* The step executes a chaos move: a move the rules refused joins the history.
ChaosExecuted ==
    /\ Completes
    /\ Len(byRules') = Len(byRules) + 1
    /\ ~byRules'[Len(byRules')]

(* C28: an end event with reason checkmate, stalemate, threefold,          *)
(* insufficient or fifty-move comes immediately after the move event of a  *)
(* legal move of the same ply, the last move of the result; such a result  *)
(* is only produced by the step that accepted a legal move.  A rejected    *)
(* attempt or an executed chaos move never gives one of these reasons, and *)
(* after an executed chaos move, whatever the forced position, the loop    *)
(* continues with the other side to move.                                  *)
C28_TerminalOnlyAfterLegalMove ==
    [][ /\ \A i \in 1..Len(events') :
            (events'[i].type = "end" /\ events'[i].result.reason \in TerminalReasons)
            => /\ i > 1
               /\ events'[i - 1].type = "move"
               /\ events'[i - 1].kind = "legal"
               /\ events'[i - 1].ply = ply'
               /\ events'[i].result.moves # <<>>
               /\ events'[i - 1].move =
                      events'[i].result.moves[Len(events'[i].result.moves)]
        /\ (result = NoResult /\ result'.reason \in TerminalReasons) =>
               /\ Completes
               /\ lib'.accepted
               /\ byRules' = Append(byRules, TRUE)
        /\ \A c \in Colors :
               RejectedAttemptBy(c) => result'.reason \in {"none", "illegal"}
        /\ ChaosExecuted =>
               /\ mode = "chaos"
               /\ ~lib'.accepted
               /\ result' = NoResult
               /\ pc' = "loop"
               /\ ActiveColor(chess') = Opponent(ActiveColor(chess)) ]_vars

C28_Witness ==
    /\ runner = "match"
    /\ mode = "chaos"
    /\ pc = "done"
    /\ result.reason = "stalemate"
    /\ byRules = <<TRUE>>
    /\ illegalCounts["white"] = 0
    /\ Len(events) > 3
    /\ events[Len(events)].type = "end"
    /\ events[Len(events) - 1].kind = "legal"
    /\ events[Len(events) - 1].ply = 1
    /\ events[Len(events) - 2].kind = "illegal"

(* C29: an executed chaos move hands the move to the opponent of the color *)
(* that acted and advances the full-move counter by one exactly when black *)
(* acted; and the engine's own full-move counter equals the counter of the *)
(* current position after every accepted ply, legal or chaos.              *)
C29_TurnAndFullmove ==
    [][ /\ ChaosExecuted =>
              /\ chess'.turn = (IF chess.turn = "w" THEN "b" ELSE "w")
              /\ ActiveColor(chess') = Opponent(ActiveColor(chess))
              /\ chess'.fullmove =
                     IF chess.turn = "b" THEN fullmove + 1 ELSE fullmove
        /\ (Completes /\ Len(moves') = Len(moves) + 1) =>
              /\ fullmove' = chess'.fullmove
              /\ fullmove' >= fullmove
        /\ fullmove' = chess'.fullmove ]_vars

C29_Witness ==
    /\ mode = "chaos"
    /\ byRules = <<TRUE, FALSE, FALSE>>
    /\ chess.turn = "b"
    /\ chess.fullmove = 2
    /\ fullmove = 2

(* C30: applyChaosMove moves the occupant of the source square literally:  *)
(* afterwards the source square is empty unless it is the destination, the *)
(* destination holds the piece that stood on the source square, of the     *)
(* same type and color, or the promotion piece where one is given, every   *)
(* other square is as before, and from an empty source a pawn of the       *)
(* acting color comes to stand on the destination.                         *)
C30_OccupantMovedLiterally ==
    (unit.fn = "applyChaosMove" /\ unit.done) =>
        LET before == unit.fen.board
            after == unit.ret.fen.board
            uci == unit.uci
            occupant == at(before, uci.from)
            moved == IF occupant = NoPiece
                     THEN [type |-> IF uci.promotion = "" THEN "p" ELSE uci.promotion,
                           color |-> unit.color]
                     ELSE [type |-> IF uci.promotion = "" THEN occupant.type
                                    ELSE uci.promotion,
                           color |-> occupant.color]
        IN  /\ at(after, uci.to) = moved
            /\ uci.from # uci.to => at(after, uci.from) = NoPiece
            /\ \A sq \in Squares \ {uci.from, uci.to} : at(after, sq) = at(before, sq)

(* C31: lenient promotion: when the cleaned text has length 5 and two      *)
(* valid squares, parseUciMove returns the move with the fifth character   *)
(* as promotion if it is one of q, r, b, n, and otherwise the same source  *)
(* and destination with no promotion; it never returns null for such text. *)
C31_LenientPromotion ==
    LET cleaned == stripMoveLabel(stripNonAlnum(toLowerCase(unit.raw)))
    IN  (/\ unit.fn = "parseUciMove"
         /\ unit.done
         /\ Len(cleaned) = 5
         /\ isSquare(SubSeq(cleaned, 1, 2))
         /\ isSquare(SubSeq(cleaned, 3, 4)))
        => /\ unit.ret # NoMove
           /\ unit.ret.from = SubSeq(cleaned, 1, 2)
           /\ unit.ret.to = SubSeq(cleaned, 3, 4)
           /\ cleaned[5] \in {"q", "r", "b", "n"} => unit.ret.promotion = cleaned[5]
           /\ cleaned[5] \notin {"q", "r", "b", "n"} => unit.ret.promotion = ""

C31_Witness ==
    /\ unit.fn = "parseUciMove"
    /\ unit.done
    /\ unit.raw = <<"e","2","H","2","9">>
    /\ unit.ret = [from |-> <<"e","2">>, to |-> <<"h","2">>, promotion |-> ""]

(* C32: on the page an aborted match yields no result: once the user has   *)
(* stopped a match whose end event was not yet handled, no Match Result of *)
(* that match is set, no entry for it joins the stored match history and   *)
(* no Elo update is applied for it.                                        *)
C32_StoppedMatchHasNoResult ==
    \A m \in home.stopped :
        /\ home.result # m
        /\ \A i \in 1..Len(home.history) : home.history[i] # m
        /\ \A i \in 1..Len(home.elo) : home.elo[i] # m

C32_Witness ==
    /\ home.stopped = {2}
    /\ home.loops[2].phase = "over"
    /\ home.loops[2].server = "ended"
    /\ home.history = <<1>>
    /\ home.elo = <<1>>
    /\ home.result = 0

\* The reasons of a Match Result, by kind of outcome.
DrawReasons == {"stalemate", "threefold", "insufficient", "fifty-move", "max-move"}
ForfeitReasons == {"resignation", "illegal", "timeout"}

(* C33: in every Match Result the reason is one of the nine of the closed  *)
(* set and agrees with the winner: the winner is "draw" exactly when the   *)
(* reason is stalemate, threefold, insufficient, fifty-move or max-move,   *)
(* and a color exactly when it is checkmate, resignation, illegal or       *)
(* timeout; for resignation, illegal and timeout the winner is the         *)
(* opponent of the color that was to move, for checkmate the color that    *)
(* moved.  The end event of /api/match carries that result.                *)
C33_WinnerMatchesReason ==
    [][ result' # NoResult =>
          /\ result'.reason \in DrawReasons \cup ForfeitReasons \cup {"checkmate"}
          /\ result'.winner \in Colors \cup {"draw"}
          /\ result'.winner = "draw" <=> result'.reason \in DrawReasons
          /\ result'.winner \in Colors
                <=> result'.reason \in ForfeitReasons \cup {"checkmate"}
          /\ (result = NoResult /\ result'.reason \in ForfeitReasons) =>
                /\ result'.winner = Opponent(ActiveColor(chess))
                /\ chess' = chess
          /\ (result = NoResult /\ result'.reason = "checkmate") =>
                /\ result'.winner = ActiveColor(chess)
                /\ ActiveColor(chess') = Opponent(ActiveColor(chess))
          /\ runner = "match" =>
                /\ events'[Len(events')].type = "end"
                /\ events'[Len(events')].result = result' ]_vars

C33_Witness ==
    /\ runner = "match"
    /\ mode = "chaos"
    /\ pc = "done"
    /\ result.reason = "illegal"
    /\ result.winner = "white"
    /\ ActiveColor(chess) = "black"
    /\ Len(moves) = 1

\* The events of the stream that report an accepted ply, in order.
AcceptedMoveEvents ==
    SelectSeq(events, LAMBDA e : e.type = "move" /\ e.kind # "resign")

(* C34: accepted plies alternate colors: in every match and every variant  *)
(* the move events other than the resignation marker start with white and  *)
(* alternate white, black, white, ...; every accepted ply, legal or chaos, *)
(* flips the side to move and no rejected attempt does, so the side to     *)
(* move is white exactly when the move history has even length.            *)
C34_AcceptedPliesAlternate ==
    /\ \A i \in 1..Len(AcceptedMoveEvents) :
          AcceptedMoveEvents[i].color = IF i % 2 = 1 THEN "white" ELSE "black"
    /\ runner = "match" => Len(AcceptedMoveEvents) = Len(moves)
    /\ ActiveColor(chess) = IF Len(moves) % 2 = 0 THEN "white" ELSE "black"

C34_Witness ==
    /\ runner = "match"
    /\ mode = "chaos"
    /\ Len(AcceptedMoveEvents) = 3
    /\ AcceptedMoveEvents[1].kind = "legal"
    /\ AcceptedMoveEvents[2].kind = "chaos"
    /\ AcceptedMoveEvents[3].kind = "chaos"
    /\ AcceptedMoveEvents[3].color = "white"
    /\ illegalCounts = [white |-> 1, black |-> 1]

\* The attempts the stream reports as rejected and not executed: the strike
\* statuses less the chaos moves that followed one.
RejectedUnexecuted ==
    Len(SelectSeq(events, LAMBDA e : e.type = "status" /\ e.kind \in {"illegal", "empty"}))
    - Len(SelectSeq(events, LAMBDA e : e.type = "move" /\ e.kind = "chaos"))

(* C35: the ply budget counts attempts, not accepted moves: every loop     *)
(* iteration issues one move request and uses up one ply of the ceiling    *)
(* whether its attempt is accepted or rejected, so a match issues at most  *)
(* MAX_PLY move requests, and at a max-move result the move history is as  *)
(* long as the ceiling less the attempts rejected without being executed.  *)
C35_PlyBudgetCountsAttempts ==
    [][ /\ requests' <= maxPly
        /\ (pc = "loop" /\ pc' = "fetch") => requests' = requests + 1 /\ ply' = ply
        /\ pc' = "fetch" => requests' = ply' + 1
        /\ pc' = "loop" => requests' = ply'
        /\ (Completes /\ pc' = "loop") =>
              /\ ply' = ply + 1
              /\ requests' = requests
              /\ \/ Len(moves') = Len(moves) + 1
                 \/ moves' = moves /\ \E c \in Colors : RejectedAttemptBy(c)
        /\ (result' # NoResult /\ result'.reason = "max-move") =>
              /\ ply' = maxPly
              /\ requests' = maxPly
              /\ Len(result'.moves) <= maxPly
              /\ runner = "match" =>
                    Len(result'.moves) = maxPly - RejectedUnexecuted' ]_vars

C35_Witness ==
    /\ runner = "match"
    /\ mode = "chaos"
    /\ pc = "done"
    /\ result.reason = "max-move"
    /\ requests = maxPly
    /\ Len(result.moves) = 2
    /\ RejectedUnexecuted = 1
    /\ \E i \in 1..Len(events) : events[i].kind = "chaos"

(* C36: after Stop All is invoked during a running tournament, no pairing  *)
(* that was still queued is started afterwards: the scheduler of a stopped *)
(* tournament takes no further pairing and issues no new /api/match        *)
(* request.                                                                *)
C36_StopAllStartsNothing ==
    [][ \A r \in DOMAIN tourney.runs :
          tourney.runs[r].stopped =>
              /\ tourney'.runs[r].cursor = tourney.runs[r].cursor
              /\ tourney'.runs[r].starts = tourney.runs[r].starts
              /\ \A s \in openStreams(tourney') :
                    s[1] = r => s \in openStreams(tourney) ]_vars

(* C39: in the client-run tournament every generated pairing is started    *)
(* exactly once, none skipped and none run twice, whatever the order in    *)
(* which the parallel matches finish: the pairings are taken in order, one *)
(* start each, and a tournament is reported finished only after every one  *)
(* of its pairings was started and its match has returned.                 *)
C39_EveryPairingOnce ==
    \A r \in DOMAIN tourney.runs :
        LET run == tourney.runs[r]
            over == \A w \in DOMAIN run.chains : run.chains[w] = 0
        IN  /\ \A i \in 1..tourney.n :
                  run.starts[i] = IF i <= run.cursor THEN 1 ELSE 0
            /\ \A v, w \in DOMAIN run.chains :
                  (v # w /\ run.chains[v] # 0) => run.chains[v] # run.chains[w]
            /\ run.active = Cardinality({ w \in DOMAIN run.chains : run.chains[w] # 0 })
            /\ over => \A i \in 1..tourney.n : run.starts[i] = 1
            /\ run.finished => over

C39_Witness ==
    /\ tourney.n = 5
    /\ Len(tourney.runs) = 1
    /\ tourney.runs[1].finished
    /\ ~tourney.runs[1].stopped
    /\ tourney.runs[1].starts = [i \in 1..5 |-> 1]
    /\ ~tourney.busy

(* C37: the display move number of a move event is floor(k/2)+1 with k the *)
(* number of accepted plies before it, for legal and chaos moves alike, so *)
(* white's n-th accepted ply and black's n-th accepted ply both carry n.   *)
C37_DisplayMoveNumber ==
    \A i \in 1..Len(AcceptedMoveEvents) :
        AcceptedMoveEvents[i].displayMoveNum = ((i - 1) \div 2) + 1

(* C38: the result agrees with the stream: the moves of the Match Result   *)
(* are, in order, the tokens of the move events emitted before the end     *)
(* event other than the resignation marker; the move history always holds  *)
(* exactly the tokens reported so far and only ever grows by appending.    *)
C38_ResultAgreesWithStream ==
    [][ /\ Len(moves') >= Len(moves)
        /\ SubSeq(moves', 1, Len(moves)) = moves
        /\ Len(moves') <= Len(moves) + 1
        /\ runner = "match" =>
              /\ Len(AcceptedMoveEvents') = Len(moves')
              /\ \A i \in 1..Len(moves') : AcceptedMoveEvents'[i].move = moves'[i]
              /\ result' # NoResult =>
                    /\ result'.moves = moves'
                    /\ events'[Len(events')].type = "end"
                    /\ events'[Len(events')].result.moves = moves' ]_vars

C38_Witness ==
    /\ runner = "match"
    /\ mode = "chaos"
    /\ pc = "done"
    /\ result.reason = "resignation"
    /\ result.moves = << <<"e","2","e","4">>, <<"e","2","e","4">> >>
    /\ byRules = <<TRUE, FALSE>>
    /\ Len(SelectSeq(events, LAMBDA e : e.type = "move")) = 3

====
